---- MODULE Spec2Model ----
(***************************************************************************)
(* A model of the Sample language compiler pipeline:                       *)
(*   Lexer (src/src/language/lexer.js), Parser (src/unnamed/part_001),     *)
(*   Emitter (src/src/language/emitter.js), the token/node types           *)
(*   (src/unnamed/part_000) and the character classifier StrUtils          *)
(*   (src/src/language/emitter.js, second half).                           *)
(*                                                                         *)
(* Text is a sequence of UTF-16 code units (naturals).  Syntax items live  *)
(* in a heap (a sequence of records); an item's identity is its index in   *)
(* the heap, 0 stands for JavaScript's undefined reference.                *)
(***************************************************************************)
EXTENDS Integers, Sequences, FiniteSets, TLC

(***************************************************************************)
(* Character codes                                                         *)
(***************************************************************************)
CharCodes ==
    [ nullCharacter |-> 0, maxAsciiCharacter |-> 127,
      lineFeed |-> 10, carriageReturn |-> 13,
      lineSeparator |-> 8232, paragraphSeparator |-> 8233, nextLine |-> 133,
      space |-> 32, nonBreakingSpace |-> 160,
      enQuad |-> 8192, zeroWidthSpace |-> 8203,
      narrowNoBreakSpace |-> 8239, ideographicSpace |-> 12288,
      mathematicalSpace |-> 8287, ogham |-> 5760,
      underscore |-> 95,
      d0 |-> 48, d9 |-> 57,
      a |-> 97, z |-> 122, A |-> 65, Z |-> 90,
      asterisk |-> 42, bar |-> 124, closeBrace |-> 125, closeParen |-> 41,
      dot |-> 46, doubleQuote |-> 34, equals |-> 61, minus |-> 45,
      openBrace |-> 123, openParen |-> 40, plus |-> 43, semicolon |-> 59,
      singleQuote |-> 39, slash |-> 47,
      formFeed |-> 12, byteOrderMark |-> 65279, tab |-> 9, verticalTab |-> 11 ]

\* The accented vowels of CharCodes, lower case then upper case.
AccentedLower == {225, 233, 237, 243, 246, 337, 250, 252, 369}
AccentedUpper == {193, 201, 205, 211, 214, 336, 218, 220, 368}

\* charCodeAt of a position outside the string is NaN; every comparison
\* with NaN is false, which -1 reproduces for the comparisons made here.
NaN == 0 - 1

charCodeAt(s, p) == IF p >= 0 /\ p < Len(s) THEN s[p + 1] ELSE NaN

substring(s, from, to) == SubSeq(s, from + 1, to)

(***************************************************************************)
(* StrUtils                                                                *)
(***************************************************************************)
isWhiteSpaceSingleLine(ch) ==
    \/ ch = CharCodes.space
    \/ ch = CharCodes.tab
    \/ ch = CharCodes.verticalTab
    \/ ch = CharCodes.formFeed
    \/ ch = CharCodes.nonBreakingSpace
    \/ ch = CharCodes.nextLine
    \/ ch = CharCodes.ogham
    \/ (ch >= CharCodes.enQuad /\ ch <= CharCodes.zeroWidthSpace)
    \/ ch = CharCodes.narrowNoBreakSpace
    \/ ch = CharCodes.mathematicalSpace
    \/ ch = CharCodes.ideographicSpace
    \/ ch = CharCodes.byteOrderMark

isLineBreak(ch) ==
    \/ ch = CharCodes.lineFeed
    \/ ch = CharCodes.carriageReturn
    \/ ch = CharCodes.lineSeparator
    \/ ch = CharCodes.paragraphSeparator

isLetter(ch) ==
    \/ (ch >= CharCodes.A /\ ch <= CharCodes.Z)
    \/ (ch >= CharCodes.a /\ ch <= CharCodes.z)
    \/ ch \in AccentedLower
    \/ ch \in AccentedUpper

isDigit(ch) == ch >= CharCodes.d0 /\ ch <= CharCodes.d9

isIdentifierStartPart(ch) == isLetter(ch)

isIdentifierPart(ch) ==
    \/ isLetter(ch)
    \/ (ch >= CharCodes.d0 /\ ch <= CharCodes.d9)
    \/ ch = CharCodes.underscore
    \/ ch > CharCodes.maxAsciiCharacter

(***************************************************************************)
(* SyntaxKind                                                              *)
(***************************************************************************)
SyntaxKind ==
    [ Unknown |-> 0, EndOfFileToken |-> 1, EndOfLineToken |-> 2,
      WhiteSpaceTrivia |-> 3,
      OpenBraceToken |-> 100, CloseBraceToken |-> 101,
      OpenParenToken |-> 102, CloseParenToken |-> 103,
      EqualsToken |-> 104, SemicolonToken |-> 105,
      PlusToken |-> 106, MinusToken |-> 107,
      AsteriskToken |-> 108, SlashToken |-> 109, VerticalBar |-> 110,
      ProgramKeyword |-> 200, CallKeyword |-> 201, LetKeyword |-> 202,
      AndKeyword |-> 203,
      IdentifierToken |-> 300, NumericLiteralToken |-> 301,
      StringLiteralToken |-> 302,
      IdentifierName |-> 1100,
      ParenthesizedExpression |-> 1200, ArgumentList |-> 1201,
      NumericLiteralExpression |-> 1301, StringLiteralExpression |-> 1302,
      UnaryPlusExpression |-> 1400, UnaryMinusExpression |-> 1401,
      AddExpression |-> 1500, SubtractExpression |-> 1501,
      MultiplyExpression |-> 1502, DivideExpression |-> 1503,
      Program |-> 2000, Block |-> 2001, VarDeclStatement |-> 2002,
      InvocationExpression |-> 2003 ]

\* The kind of a token whose kind was never assigned (JavaScript undefined).
UndefinedKind == 0 - 1

\* The reverse map the loop "for (let name in SyntaxKind)" adds: kind -> name.
KindNames ==
    {"Unknown", "EndOfFileToken", "EndOfLineToken", "WhiteSpaceTrivia",
     "OpenBraceToken", "CloseBraceToken", "OpenParenToken", "CloseParenToken",
     "EqualsToken", "SemicolonToken", "PlusToken", "MinusToken",
     "AsteriskToken", "SlashToken", "VerticalBar",
     "ProgramKeyword", "CallKeyword", "LetKeyword", "AndKeyword",
     "IdentifierToken", "NumericLiteralToken", "StringLiteralToken",
     "IdentifierName", "ParenthesizedExpression", "ArgumentList",
     "NumericLiteralExpression", "StringLiteralExpression",
     "UnaryPlusExpression", "UnaryMinusExpression",
     "AddExpression", "SubtractExpression", "MultiplyExpression",
     "DivideExpression", "Program", "Block", "VarDeclStatement",
     "InvocationExpression"}

\* SyntaxItem.kindText: SyntaxKind[this.kind] || "unknown".
kindText(kind) ==
    IF \E n \in KindNames : SyntaxKind[n] = kind
    THEN CHOOSE n \in KindNames : SyntaxKind[n] = kind
    ELSE "unknown"

\* The reserved words, as text.
Word_program == <<112, 114, 111, 103, 114, 97, 109>>
Word_call == <<99, 97, 108, 108>>
Word_let == <<108, 101, 116>>
Word_and == <<97, 110, 100>>

\* KeywordSyntaxKindMap[text]; a miss is undefined.
KeywordSyntaxKindMap(text) ==
    CASE text = Word_program -> SyntaxKind.ProgramKeyword
      [] text = Word_call -> SyntaxKind.CallKeyword
      [] text = Word_let -> SyntaxKind.LetKeyword
      [] text = Word_and -> SyntaxKind.AndKeyword
      [] OTHER -> UndefinedKind

(***************************************************************************)
(* Errors: a message is a sequence of text fragments (quoted holds source  *)
(* text a message cites), NoError the absence of a thrown exception.       *)
(***************************************************************************)
NoError == [type |-> "none", message |-> <<>>, quoted |-> <<>>]
SyntaxError(message) ==
    [type |-> "SyntaxError", message |-> message, quoted |-> <<>>]
EmitterError(message) ==
    [type |-> "EmitterError", message |-> message, quoted |-> <<>>]
\* The error of scanIdentifierOrKeyword, which quotes the text of the run.
InvalidIdentifier(text) ==
    [type |-> "SyntaxError", message |-> <<"Invalid identifier: '", "'.">>,
     quoted |-> text]

(***************************************************************************)
(* Token values                                                            *)
(***************************************************************************)
UndefinedValue == [t |-> "undefined", s |-> <<>>, n |-> 0]
StringValue(s) == [t |-> "string", s |-> s, n |-> 0]

\* The digits of a run, as a natural number.
RECURSIVE DigitsValue(_)
DigitsValue(s) ==
    IF s = <<>> THEN 0
    ELSE 10 * DigitsValue(SubSeq(s, 1, Len(s) - 1)) + (s[Len(s)] - CharCodes.d0)

\* A fraction's digits without the trailing zeros, which do not change the
\* number.
RECURSIVE StripZeros(_)
StripZeros(s) ==
    IF s # <<>> /\ s[Len(s)] = CharCodes.d0
    THEN StripZeros(SubSeq(s, 1, Len(s) - 1))
    ELSE s

\* +text for a text of the shape digits [ "." digits ]: the whole part as a
\* number and the significant digits of the fraction.
ToNumber(text) ==
    LET dots == {i \in 1..Len(text) : text[i] = CharCodes.dot}
        d == IF dots = {} THEN Len(text) + 1 ELSE CHOOSE i \in dots : TRUE
    IN [t |-> "number",
        s |-> StripZeros(SubSeq(text, d + 1, Len(text))),
        n |-> DigitsValue(SubSeq(text, 1, d - 1))]

\* new SyntaxToken(): no kind, no parent, empty text, no value.
NewSyntaxToken ==
    [cls |-> "token", kind |-> UndefinedKind, parent |-> 0,
     text |-> <<>>, value |-> UndefinedValue, children |-> <<>>]

(***************************************************************************)
(* Lexer.  A lexer is [source, pos]; lastPos is source.length - 1.  Every  *)
(* scan returns [token, pos, err]: the token filled in, the cursor where   *)
(* the scan left it and the exception thrown, if any.                      *)
(***************************************************************************)
\* A last position that is the length of the source.
lastPos_Length(source) == Len(source)

lastPos(source) == Len(source) - 1

\* A local variable.  With(v, [x \in Any |-> rest]) is the rest of a method,
\* x standing for the value v of a call or an expression.
With(v, rest) == rest[v]

Scanned(token, pos) == [token |-> token, pos |-> pos, err |-> NoError]
ScanThrew(pos, err) == [token |-> NewSyntaxToken, pos |-> pos, err |-> err]

Punctuation(source, pos, kind) ==
    Scanned([NewSyntaxToken EXCEPT !.kind = kind,
                                   !.text = <<charCodeAt(source, pos)>>],
            pos + 1)

\* A line break scan that takes one character whatever follows.
scanEndOfLine_OneCharacter(source, pos) ==
    Scanned([NewSyntaxToken EXCEPT !.kind = SyntaxKind.EndOfLineToken],
            pos + 1)

scanEndOfLine(source, pos) ==
    LET step == IF charCodeAt(source, pos) = CharCodes.carriageReturn
                   /\ charCodeAt(source, pos + 1) = CharCodes.lineFeed
                THEN 2 ELSE 1
    IN Scanned([NewSyntaxToken EXCEPT !.kind = SyntaxKind.EndOfLineToken],
               pos + step)

RECURSIVE WhileWhiteSpace(_, _)
WhileWhiteSpace(source, pos) ==
    IF pos <= lastPos(source) /\ isWhiteSpaceSingleLine(charCodeAt(source, pos))
    THEN WhileWhiteSpace(source, pos + 1)
    ELSE pos

scanWhiteSpaceTrivia(source, pos) ==
    With(WhileWhiteSpace(source, pos + 1), [end \in Any |->
        Scanned([NewSyntaxToken EXCEPT
                    !.kind = SyntaxKind.WhiteSpaceTrivia,
                    !.text = substring(source, pos, end)],
                end)])

RECURSIVE WhileDigit(_, _)
WhileDigit(source, pos) ==
    IF pos <= lastPos(source) /\ isDigit(charCodeAt(source, pos))
    THEN WhileDigit(source, pos + 1)
    ELSE pos

\* A numeric scan that takes a second fractional part when one follows.
scanNumericLiteral_Fractions(source, pos) ==
    With(WhileDigit(source, pos + 1), [whole \in Any |->
    With(IF charCodeAt(source, whole) = CharCodes.dot
                    THEN WhileDigit(source, whole + 1)
                    ELSE whole, [first \in Any |->
    With(IF first > whole /\ charCodeAt(source, first) = CharCodes.dot
                    THEN WhileDigit(source, first + 1)
                    ELSE first, [end \in Any |->
    With(substring(source, pos, end), [text \in Any |->
        Scanned([NewSyntaxToken EXCEPT
                    !.kind = SyntaxKind.NumericLiteralToken,
                    !.text = text,
                    !.value = ToNumber(text)],
                end)])])])])

scanNumericLiteral(source, pos) ==
    With(WhileDigit(source, pos + 1), [whole \in Any |->
    With(IF charCodeAt(source, whole) = CharCodes.dot
                    THEN WhileDigit(source, whole + 1)
                    ELSE whole, [end \in Any |->
    With(substring(source, pos, end), [text \in Any |->
        Scanned([NewSyntaxToken EXCEPT
                    !.kind = SyntaxKind.NumericLiteralToken,
                    !.text = text,
                    !.value = ToNumber(text)],
                end)])])])

RECURSIVE WhileNotQuote(_, _, _)
WhileNotQuote(source, pos, openQuoteChar) ==
    IF pos <= lastPos(source) /\ charCodeAt(source, pos) # openQuoteChar
    THEN WhileNotQuote(source, pos + 1, openQuoteChar)
    ELSE pos

\* A variant of scanStringLiteral that takes the end of the source for the
\* closing quote.
scanStringLiteral_ToEnd(source, pos) ==
    With(charCodeAt(source, pos), [openQuoteChar \in Any |->
    With(WhileNotQuote(source, pos + 1, openQuoteChar), [close \in Any |->
        IF close > lastPos(source)
        THEN Scanned([NewSyntaxToken EXCEPT
                         !.kind = SyntaxKind.StringLiteralToken,
                         !.text = substring(source, pos, close),
                         !.value = StringValue(substring(source, pos + 1, close))],
                     close)
        ELSE Scanned([NewSyntaxToken EXCEPT
                         !.kind = SyntaxKind.StringLiteralToken,
                         !.text = substring(source, pos, close + 1),
                         !.value = StringValue(substring(source, pos + 1, close))],
                     close + 1)])])

\* A string scan that takes either quote character for the closing one.
scanStringLiteral_EitherQuote(source, pos) ==
    With({p \in (pos + 1)..lastPos(source) :
             source[p + 1] \in {CharCodes.doubleQuote, CharCodes.singleQuote}},
         [quotes \in Any |->
    With(IF quotes = {} THEN Len(source)
         ELSE CHOOSE p \in quotes : \A q \in quotes : p <= q, [close \in Any |->
        IF close > lastPos(source)
        THEN ScanThrew(close, SyntaxError(<<"Unterminated string literal.">>))
        ELSE Scanned([NewSyntaxToken EXCEPT
                         !.kind = SyntaxKind.StringLiteralToken,
                         !.text = substring(source, pos, close + 1),
                         !.value = StringValue(substring(source, pos + 1, close))],
                     close + 1)])])

\* A string scan that, finding no closing quote, throws with the cursor
\* back on the opening quote.
scanStringLiteral_ThrowInPlace(source, pos) ==
    With(charCodeAt(source, pos), [openQuoteChar \in Any |->
    With(WhileNotQuote(source, pos + 1, openQuoteChar), [close \in Any |->
        IF close > lastPos(source)
        THEN ScanThrew(pos, SyntaxError(<<"Unterminated string literal.">>))
        ELSE Scanned([NewSyntaxToken EXCEPT
                         !.kind = SyntaxKind.StringLiteralToken,
                         !.text = substring(source, pos, close + 1),
                         !.value = StringValue(substring(source, pos + 1, close))],
                     close + 1)])])

scanStringLiteral(source, pos) ==
    With(charCodeAt(source, pos), [openQuoteChar \in Any |->
    With(WhileNotQuote(source, pos + 1, openQuoteChar), [close \in Any |->
        IF close > lastPos(source)
        THEN ScanThrew(close, SyntaxError(<<"Unterminated string literal.">>))
        ELSE Scanned([NewSyntaxToken EXCEPT
                         !.kind = SyntaxKind.StringLiteralToken,
                         !.text = substring(source, pos, close + 1),
                         !.value = StringValue(substring(source, pos + 1, close))],
                     close + 1)])])

RECURSIVE WhileIdentifierPart(_, _)
WhileIdentifierPart(source, pos) ==
    IF pos <= lastPos(source) /\ isIdentifierPart(charCodeAt(source, pos))
    THEN WhileIdentifierPart(source, pos + 1)
    ELSE pos

scanIdentifierOrKeyword(source, pos) ==
    With(charCodeAt(source, pos), [firstChar \in Any |->
    With(WhileIdentifierPart(source, pos + 1), [end \in Any |->
    With(substring(source, pos, end), [text \in Any |->
    With(KeywordSyntaxKindMap(text), [keyword \in Any |->
        IF keyword = UndefinedKind /\ ~isIdentifierStartPart(firstChar)
        THEN ScanThrew(end, InvalidIdentifier(text))
        ELSE Scanned([NewSyntaxToken EXCEPT
                         !.kind = IF keyword = UndefinedKind
                                  THEN SyntaxKind.IdentifierToken
                                  ELSE keyword,
                         !.text = text,
                         !.value = StringValue(text)],
                     end)])])])])

\* The case labels of next() that lead to scanIdentifierOrKeyword.
IdentifierCases ==
    (CharCodes.a .. CharCodes.z) \cup AccentedLower
        \cup (CharCodes.A .. CharCodes.Z) \cup AccentedUpper
        \cup {CharCodes.underscore}

\* Lexer.next()
next(source, pos) ==
    IF pos > lastPos(source)
    THEN Scanned([NewSyntaxToken EXCEPT !.kind = SyntaxKind.EndOfFileToken], pos)
    ELSE LET ch == charCodeAt(source, pos) IN
         CASE ch \in {CharCodes.lineFeed, CharCodes.carriageReturn} ->
                  scanEndOfLine(source, pos)
           [] ch \in {CharCodes.tab, CharCodes.verticalTab,
                      CharCodes.formFeed, CharCodes.space} ->
                  scanWhiteSpaceTrivia(source, pos)
           [] ch \in {CharCodes.doubleQuote, CharCodes.singleQuote} ->
                  scanStringLiteral(source, pos)
           [] ch = CharCodes.equals ->
                  Punctuation(source, pos, SyntaxKind.EqualsToken)
           [] ch = CharCodes.semicolon ->
                  Punctuation(source, pos, SyntaxKind.SemicolonToken)
           [] ch = CharCodes.plus ->
                  Punctuation(source, pos, SyntaxKind.PlusToken)
           [] ch = CharCodes.minus ->
                  Punctuation(source, pos, SyntaxKind.MinusToken)
           [] ch = CharCodes.asterisk ->
                  Punctuation(source, pos, SyntaxKind.AsteriskToken)
           [] ch = CharCodes.slash ->
                  Punctuation(source, pos, SyntaxKind.SlashToken)
           [] ch = CharCodes.bar ->
                  Punctuation(source, pos, SyntaxKind.VerticalBar)
           [] ch = CharCodes.openParen ->
                  Punctuation(source, pos, SyntaxKind.OpenParenToken)
           [] ch = CharCodes.closeParen ->
                  Punctuation(source, pos, SyntaxKind.CloseParenToken)
           [] ch = CharCodes.openBrace ->
                  Punctuation(source, pos, SyntaxKind.OpenBraceToken)
           [] ch = CharCodes.closeBrace ->
                  Punctuation(source, pos, SyntaxKind.CloseBraceToken)
           [] ch \in IdentifierCases ->
                  scanIdentifierOrKeyword(source, pos)
           [] ch \in (CharCodes.d0 .. CharCodes.d9) ->
                  scanNumericLiteral(source, pos)
           [] OTHER -> Scanned(NewSyntaxToken, pos + 1)

(***************************************************************************)
(* Syntax items on the heap.                                               *)
(*   SyntaxToken: cls "token";  SyntaxNode: cls "node", with a SyntaxArray *)
(*   of children (heap indices).  parent is a heap index, 0 for undefined. *)
(***************************************************************************)
\* The global "parent" that VarDeclStatement's constructor passes to super:
\* in a browser it is window.parent, an object without a kind.
WindowParent == 0 - 1

\* new SyntaxNode(kind, parent): an empty SyntaxArray of children.
SyntaxNode(kind, parent) ==
    [cls |-> "node", kind |-> kind, parent |-> parent,
     text |-> <<>>, value |-> UndefinedValue, children |-> <<>>]

\* SyntaxItem.isToken
isToken(item) == item.kind # UndefinedKind /\ item.kind < 1000

\* A variant of isParentKind that only looks for a parent.
isParentKind_AnyParent(heap, id, kind) ==
    /\ heap[id].parent # 0
    /\ heap[id].parent # WindowParent

\* SyntaxItem.isParentKind(kind): this.parent && this.parent.kind === kind
isParentKind(heap, id, kind) ==
    /\ heap[id].parent # 0
    /\ heap[id].parent # WindowParent
    /\ heap[heap[id].parent].kind = kind

Range(seq) == {seq[i] : i \in 1..Len(seq)}

\* Array.push without the parent bookkeeping of SyntaxArray.
push_Array(heap, node, items) ==
    [i \in 1..Len(heap) |->
        IF i = node THEN [heap[i] EXCEPT !.children = @ \o items]
        ELSE heap[i]]

\* SyntaxArray.push(...items) on the children of node: every item gets node
\* as its parent, then the items are appended.
push(heap, node, items) ==
    [i \in 1..Len(heap) |->
        IF i = node THEN [heap[i] EXCEPT !.children = @ \o items]
        ELSE IF i \in Range(items) THEN [heap[i] EXCEPT !.parent = node]
        ELSE heap[i]]

(***************************************************************************)
(* Parser.  The parser and its lexer are one record                        *)
(*   [source, pos, token, heap, err]                                       *)
(* where token is the heap index of this.token and err the exception in    *)
(* flight.  A parsing function returns [st, value, threw]: the state it    *)
(* leaves, the heap index it returns (0 for undefined) and whether an      *)
(* exception is in flight.                                                 *)
(***************************************************************************)
R(st, value) == [st |-> st, value |-> value, threw |-> st.err # NoError]
Throw(st, err) == [st |-> [st EXCEPT !.err = err], value |-> 0, threw |-> TRUE]
Threw(r) == r.threw

\* Sequencing.  Then(r, [x \in Any |-> rest]) is what follows a parsing
\* call with the result r: the rest of the method, x standing for r, unless
\* the call threw, in which case its exception propagates.  ThenState is the
\* same for a call that returns the parser state.
Then(r, rest) == IF r.threw THEN r ELSE rest[r]
ThenState(s, rest) == IF s.err # NoError THEN R(s, 0) ELSE rest[s]

tokenKind(st) == st.heap[st.token].kind

\* this.token = this.lexer.next()
readToken(st) ==
    With(next(st.source, st.pos), [r \in Any |->
        IF r.err # NoError
        THEN [st EXCEPT !.pos = r.pos, !.err = r.err]
        ELSE [st EXCEPT !.pos = r.pos,
                        !.heap = Append(@, r.token),
                        !.token = Len(st.heap) + 1]])

RECURSIVE skipWhiteSpace(_)
skipWhiteSpace(st) ==
    IF /\ st.err = NoError
       /\ tokenKind(st) \in {SyntaxKind.WhiteSpaceTrivia, SyntaxKind.EndOfLineToken}
       /\ tokenKind(st) # SyntaxKind.EndOfFileToken
    THEN skipWhiteSpace(readToken(st))
    ELSE st

nextToken(st) ==
    With(readToken(st), [s1 \in Any |->
        IF s1.err # NoError THEN s1 ELSE skipWhiteSpace(s1)])

parseOptionalToken(st, syntaxKind) ==
    IF tokenKind(st) = syntaxKind
    THEN R(nextToken(st), st.token)
    ELSE R(st, 0)

parseExpectedToken(st, syntaxKind) ==
    With(parseOptionalToken(st, syntaxKind), [r \in Any |->
        IF Threw(r) \/ r.value # 0
        THEN r
        ELSE Throw(st, SyntaxError(<<kindText(syntaxKind),
                                     " expected instead of the token '",
                                     kindText(tokenKind(st)), "'.">>))])

\* new X(...): super(kind, parent), then this.children.push(...items).
Construct(st, kind, parent, items) ==
    R([st EXCEPT !.heap = push(Append(st.heap, SyntaxNode(kind, parent)),
                               Len(st.heap) + 1, items)],
      Len(st.heap) + 1)

ParenthesizedExpression(st, openParenToken, expression, closeParenToken) ==
    Construct(st, SyntaxKind.ParenthesizedExpression, 0,
              <<openParenToken, expression, closeParenToken>>)

IdentifierNameSyntax(st, token) ==
    Construct(st, SyntaxKind.IdentifierName, 0, <<token>>)

ArgumentListSyntax(st, argumentList) ==
    Construct(st, SyntaxKind.ArgumentList, 0, argumentList)

LiteralExpressionSyntax(st, kind, token) ==
    Construct(st, kind, 0, <<token>>)

UnaryExpression(st, kind, operand, operator) ==
    Construct(st, kind, 0, <<operand, operator>>)

\* A binary node with its operands the other way round.
BinaryExpression_Mirrored(st, kind, left, operator, right) ==
    Construct(st, kind, 0, <<right, operator, left>>)

\* A binary node that keeps its operands only.
BinaryExpression_Operands(st, kind, left, operator, right) ==
    Construct(st, kind, 0, <<left, right>>)

BinaryExpression(st, kind, left, operator, right) ==
    Construct(st, kind, 0, <<left, operator, right>>)

ProgramSyntax(st, keyword, identifier, block) ==
    Construct(st, SyntaxKind.Program, 0, <<keyword, identifier, block>>)

BlockSyntax(st, elements) ==
    Construct(st, SyntaxKind.Block, 0, elements)

\* expression is 0 when no initializer was parsed: it is pushed only when set.
VarDeclStatement(st, keyword, identifier, expression) ==
    Construct(st, SyntaxKind.VarDeclStatement, WindowParent,
              IF expression # 0 THEN <<keyword, identifier, expression>>
              ELSE <<keyword, identifier>>)

InvocationExpression(st, keyword, identifier, argumentList) ==
    Construct(st, SyntaxKind.InvocationExpression, 0,
              <<keyword, identifier, argumentList>>)

RECURSIVE parseExpressionFactor(_)
RECURSIVE parseExpressionTerm(_)
RECURSIVE parseExpressionTermLoop(_, _)
RECURSIVE parseExpression(_)
RECURSIVE parseExpressionLoop(_, _)
RECURSIVE parseArgumentsLoop(_, _)
RECURSIVE parseInvocationExpression(_, _)
RECURSIVE parseBlock(_)
RECURSIVE parseBlockLoop(_, _)

\* The kind parseExpressionFactor gives a unary node for its operator token.
unaryKind(operatorKind) ==
    IF operatorKind = SyntaxKind.PlusToken
    THEN SyntaxKind.PlusToken
    ELSE SyntaxKind.UnaryMinusExpression

parseExpressionFactor(st) ==
    CASE tokenKind(st) = SyntaxKind.CallKeyword ->
             parseInvocationExpression(st, FALSE)
      [] tokenKind(st) = SyntaxKind.NumericLiteralToken ->
             Then(parseExpectedToken(st, tokenKind(st)), [t \in Any |->
             LiteralExpressionSyntax(
                 t.st, SyntaxKind.NumericLiteralExpression, t.value)])
      [] tokenKind(st) = SyntaxKind.StringLiteralToken ->
             Then(parseExpectedToken(st, tokenKind(st)), [t \in Any |->
             LiteralExpressionSyntax(
                 t.st, SyntaxKind.StringLiteralExpression, t.value)])
      [] tokenKind(st) = SyntaxKind.IdentifierToken ->
             Then(parseExpectedToken(st, SyntaxKind.IdentifierToken), [t \in Any |->
             IdentifierNameSyntax(t.st, t.value)])
      [] tokenKind(st) = SyntaxKind.OpenParenToken ->
             Then(parseExpectedToken(st, SyntaxKind.OpenParenToken), [open \in Any |->
             Then(parseExpression(open.st), [inner \in Any |->
             Then(parseExpectedToken(inner.st,
                                                SyntaxKind.CloseParenToken), [close \in Any |->
             ParenthesizedExpression(
                 close.st, open.value, inner.value, close.value)])])])
      [] tokenKind(st) \in {SyntaxKind.PlusToken, SyntaxKind.MinusToken} ->
             Then(parseExpectedToken(st, tokenKind(st)), [operator \in Any |->
             Then(parseExpressionFactor(operator.st), [operand \in Any |->
             UnaryExpression(
                 operand.st,
                 unaryKind(operand.st.heap[operator.value].kind),
                 operand.value, operator.value)])])
      [] OTHER ->
             Throw(st, SyntaxError(<<"An expression expected instead of the token '",
                                     kindText(tokenKind(st)), "'.">>))

\* A variant of termOperatorKind with the additive operators in the same
\* tier as the multiplicative ones.
termOperatorKind_OneTier(tokenKindValue) ==
    CASE tokenKindValue = SyntaxKind.AsteriskToken -> SyntaxKind.MultiplyExpression
      [] tokenKindValue = SyntaxKind.SlashToken -> SyntaxKind.DivideExpression
      [] tokenKindValue = SyntaxKind.PlusToken -> SyntaxKind.AddExpression
      [] tokenKindValue = SyntaxKind.MinusToken -> SyntaxKind.SubtractExpression
      [] OTHER -> 0

\* The kind of the binary node parseExpressionTerm builds for an operator
\* token, 0 when the token does not continue a term.
termOperatorKind(tokenKindValue) ==
    CASE tokenKindValue = SyntaxKind.AsteriskToken -> SyntaxKind.MultiplyExpression
      [] tokenKindValue = SyntaxKind.SlashToken -> SyntaxKind.DivideExpression
      [] OTHER -> 0

\* The while (true) loop of parseExpressionTerm, expression being the
\* expression built so far.
parseExpressionTermLoop(st, expression) ==
    IF termOperatorKind(tokenKind(st)) = 0 THEN R(st, expression)
    ELSE ThenState(nextToken(st), [s1 \in Any |->
         Then(parseExpressionFactor(s1), [right \in Any |->
         Then(BinaryExpression(
                            right.st, termOperatorKind(tokenKind(st)),
                            expression, st.token, right.value), [node \in Any |->
         parseExpressionTermLoop(node.st, node.value)])])])

parseExpressionTerm(st) ==
    Then(parseExpressionFactor(st), [factor \in Any |->
    parseExpressionTermLoop(factor.st, factor.value)])

\* The kind of the binary node parseExpression builds for an operator token,
\* 0 when the token does not continue an expression.
expressionOperatorKind(tokenKindValue) ==
    CASE tokenKindValue = SyntaxKind.PlusToken -> SyntaxKind.AddExpression
      [] tokenKindValue = SyntaxKind.MinusToken -> SyntaxKind.SubtractExpression
      [] OTHER -> 0

\* The while (true) loop of parseExpression, expression being the expression
\* built so far.
parseExpressionLoop(st, expression) ==
    IF expressionOperatorKind(tokenKind(st)) = 0 THEN R(st, expression)
    ELSE ThenState(nextToken(st), [s1 \in Any |->
         Then(parseExpressionTerm(s1), [right \in Any |->
         Then(BinaryExpression(
                            right.st, expressionOperatorKind(tokenKind(st)),
                            expression, st.token, right.value), [node \in Any |->
         parseExpressionLoop(node.st, node.value)])])])

parseExpression(st) ==
    Then(parseExpressionTerm(st), [term \in Any |->
    parseExpressionLoop(term.st, term.value)])

parseArgument(st) == parseExpression(st)

\* The while (true) loop of parseArguments, argumentList being the array
\* filled so far.
parseArgumentsLoop(st, argumentList) ==
    Then(parseArgument(st), [argument \in Any |->
        IF tokenKind(argument.st) = SyntaxKind.VerticalBar
        THEN Then(parseExpectedToken(argument.st,
                                              SyntaxKind.VerticalBar), [bar \in Any |->
             parseArgumentsLoop(bar.st, Append(argumentList, argument.value))])
        ELSE IF tokenKind(argument.st) \in {SyntaxKind.SemicolonToken,
                                            SyntaxKind.EndOfFileToken}
        THEN ArgumentListSyntax(argument.st,
                                Append(argumentList, argument.value))
        ELSE parseArgumentsLoop(argument.st,
                                Append(argumentList, argument.value))])

\* An argument list that may be empty: the loop is entered only when the
\* list does not end at once.
parseArguments_MayBeEmpty(st) ==
    IF tokenKind(st) \in {SyntaxKind.SemicolonToken, SyntaxKind.CloseBraceToken,
                          SyntaxKind.EndOfFileToken}
    THEN ArgumentListSyntax(st, <<>>)
    ELSE parseArgumentsLoop(st, <<>>)

parseArguments(st) == parseArgumentsLoop(st, <<>>)

parseVarDeclStatement(st) ==
    Then(parseExpectedToken(st, SyntaxKind.LetKeyword), [keyword \in Any |->
    Then(parseExpectedToken(keyword.st,
                                      SyntaxKind.IdentifierToken), [name \in Any |->
    Then(IdentifierNameSyntax(name.st, name.value), [identifier \in Any |->
    Then(parseOptionalToken(identifier.st,
                                        SyntaxKind.EqualsToken), [equals \in Any |->
    Then(IF equals.value # 0
                         THEN parseExpression(equals.st)
                         ELSE R(equals.st, 0), [expression \in Any |->
    Then(parseExpectedToken(expression.st,
                                           SyntaxKind.SemicolonToken), [semicolon \in Any |->
    VarDeclStatement(semicolon.st, keyword.value, identifier.value,
                     expression.value)])])])])])])

parseInvocationExpression(st, checkSemicolon) ==
    Then(parseExpectedToken(st, SyntaxKind.CallKeyword), [keyword \in Any |->
    Then(parseExpectedToken(keyword.st,
                                      SyntaxKind.IdentifierToken), [name \in Any |->
    Then(IdentifierNameSyntax(name.st, name.value), [identifier \in Any |->
    Then(parseArguments(identifier.st), [argumentList \in Any |->
    Then(IF checkSemicolon
                        THEN parseExpectedToken(argumentList.st,
                                                SyntaxKind.SemicolonToken)
                        ELSE R(argumentList.st, 0), [semicolon \in Any |->
    InvocationExpression(semicolon.st, keyword.value, identifier.value,
                         argumentList.value)])])])])])

parseStatement(st) ==
    CASE tokenKind(st) = SyntaxKind.LetKeyword -> parseVarDeclStatement(st)
      [] tokenKind(st) = SyntaxKind.CallKeyword ->
             parseInvocationExpression(st, TRUE)
      [] OTHER ->
             Throw(st, SyntaxError(<<"A statement expected instead of the token '",
                                     kindText(tokenKind(st)), "'.">>))

\* The while (true) loop of parseBlock, elements being the array filled so
\* far; it returns with the current token at the closing brace.
parseBlockLoop(st, elements) ==
    IF tokenKind(st) = SyntaxKind.CloseBraceToken THEN R(st, elements)
    ELSE IF tokenKind(st) = SyntaxKind.OpenBraceToken
    THEN Then(parseBlock(st), [block \in Any |->
         parseBlockLoop(block.st, Append(elements, block.value))])
    ELSE IF tokenKind(st) = SyntaxKind.EndOfFileToken
    THEN Throw(st, SyntaxError(<<"Unterminated block.">>))
    ELSE Then(parseStatement(st), [statement \in Any |->
         parseBlockLoop(statement.st, Append(elements, statement.value))])

parseBlock(st) ==
    Then(parseExpectedToken(st, SyntaxKind.OpenBraceToken), [open \in Any |->
    Then(parseBlockLoop(open.st, <<>>), [loop \in Any |->
    Then(parseExpectedToken(loop.st, SyntaxKind.CloseBraceToken), [close \in Any |->
    BlockSyntax(close.st, loop.value)])])])

\* A parseProgram that does not look at what follows the block.
parseProgram_BlockEnds(st) ==
    ThenState(skipWhiteSpace(st), [s0 \in Any |->
    Then(parseExpectedToken(s0, SyntaxKind.ProgramKeyword), [keyword \in Any |->
    Then(parseExpectedToken(keyword.st,
                                      SyntaxKind.IdentifierToken), [name \in Any |->
    Then(IdentifierNameSyntax(name.st, name.value), [identifier \in Any |->
    Then(parseBlock(identifier.st), [block \in Any |->
    ProgramSyntax(block.st, keyword.value, identifier.value,
                  block.value)])])])])])

parseProgram(st) ==
    ThenState(skipWhiteSpace(st), [s0 \in Any |->
    Then(parseExpectedToken(s0, SyntaxKind.ProgramKeyword), [keyword \in Any |->
    Then(parseExpectedToken(keyword.st,
                                      SyntaxKind.IdentifierToken), [name \in Any |->
    Then(IdentifierNameSyntax(name.st, name.value), [identifier \in Any |->
    Then(parseBlock(identifier.st), [block \in Any |->
    Then(parseExpectedToken(block.st, SyntaxKind.EndOfFileToken), [eof \in Any |->
    ProgramSyntax(eof.st, keyword.value, identifier.value,
                  block.value)])])])])])])

\* Parser.parse(): the lexer is reset only when parseProgram returned.
parse(st) ==
    Then(parseProgram(st), [program \in Any |->
    R([program.st EXCEPT !.pos = 0], program.value)])

(***************************************************************************)
(* Emitter.  An emitting function returns [text, err].                     *)
(***************************************************************************)
Emitted(text) == [text |-> text, err |-> NoError]
EmitThrew(err) == [text |-> <<>>, err |-> err]

\* The literal pieces of the emitted JavaScript.
Text_let == <<108, 101, 116, 32>>                               \* "let "
Text_assign == <<32, 61, 32>>                                   \* " = "
Text_semicolon == <<59>>                                        \* ";"
Text_openParen == <<40>>                                        \* "("
Text_closeParen == <<41>>                                       \* ")"
Text_comma == <<44, 32>>                                        \* ", "
Text_openBrace == <<123>>                                       \* "{"
Text_indent == <<10, 9>>                                        \* "\n\t"
Text_closeBrace == <<10, 125>>                                  \* "\n}"
Text_function == <<40, 102, 117, 110, 99, 116, 105, 111, 110, 32>> \* "(function "
Text_parens == <<40, 41, 32>>                                   \* "() "
Text_invoke == <<41, 40, 41, 59>>                               \* ")();"

\* The child of a node at a 0-based index, 0 (undefined) past the end.
child(heap, id, index) ==
    IF index < Len(heap[id].children) THEN heap[id].children[index + 1] ELSE 0

\* ThenEmit(r, [x \in Any |-> rest]) is what follows an emitting call with
\* the result r: the rest of the method, x standing for r, unless the call
\* threw, in which case its exception propagates.
ThenEmit(r, rest) == IF r.err # NoError THEN r ELSE rest[r]

RECURSIVE emitExpression(_, _)
RECURSIVE emitArgumentsFrom(_, _, _)
RECURSIVE emitInvocationExpression(_, _)

emitExpression(heap, expression) ==
    CASE heap[expression].kind = SyntaxKind.InvocationExpression ->
             emitInvocationExpression(heap, expression)
      [] heap[expression].kind \in {SyntaxKind.NumericLiteralExpression,
                                    SyntaxKind.StringLiteralExpression,
                                    SyntaxKind.IdentifierName} ->
             Emitted(heap[child(heap, expression, 0)].text)
      [] heap[expression].kind = SyntaxKind.ParenthesizedExpression ->
             ThenEmit(emitExpression(
                                     heap, child(heap, expression, 1)), [inner \in Any |->
             Emitted(heap[child(heap, expression, 0)].text
                     \o inner.text
                     \o heap[child(heap, expression, 2)].text)])
      [] heap[expression].kind \in {SyntaxKind.UnaryPlusExpression,
                                    SyntaxKind.UnaryMinusExpression} ->
             ThenEmit(emitExpression(
                                       heap, child(heap, expression, 0)), [operand \in Any |->
             Emitted(heap[child(heap, expression, 1)].text \o operand.text)])
      [] heap[expression].kind \in {SyntaxKind.AddExpression,
                                    SyntaxKind.SubtractExpression,
                                    SyntaxKind.MultiplyExpression,
                                    SyntaxKind.DivideExpression} ->
             ThenEmit(emitExpression(
                                    heap, child(heap, expression, 0)), [left \in Any |->
             ThenEmit(emitExpression(
                                     heap, child(heap, expression, 2)), [right \in Any |->
             Emitted(left.text \o heap[child(heap, expression, 1)].text
                     \o right.text)])])
      [] OTHER ->
             EmitThrew(EmitterError(<<"The expression '",
                                      kindText(heap[expression].kind),
                                      "' is not supported.">>))

\* args.children.map(arg => this.emitExpression(arg)).join(", "), from the
\* 0-based index on.
emitArgumentsFrom(heap, args, index) ==
    IF index >= Len(heap[args].children) THEN Emitted(<<>>)
    ELSE ThenEmit(emitExpression(
                                 heap, child(heap, args, index)), [first \in Any |->
         ThenEmit(emitArgumentsFrom(heap, args, index + 1), [rest \in Any |->
         IF index + 1 >= Len(heap[args].children) THEN first
         ELSE Emitted(first.text \o Text_comma \o rest.text)])])

emitArguments(heap, args) == emitArgumentsFrom(heap, args, 0)

emitVarDeclStatement(heap, statement) ==
    IF child(heap, statement, 2) = 0
    THEN Emitted(Text_let
                 \o heap[child(heap, child(heap, statement, 1), 0)].value.s
                 \o Text_semicolon)
    ELSE ThenEmit(emitExpression(
                                       heap, child(heap, statement, 2)), [initializer \in Any |->
         Emitted(Text_let
                 \o heap[child(heap, child(heap, statement, 1), 0)].value.s
                 \o Text_assign \o initializer.text \o Text_semicolon)])

emitInvocationExpression(heap, expression) ==
    ThenEmit(emitArguments(
                                heap, child(heap, expression, 2)), [arguments \in Any |->
    Emitted(heap[child(heap, child(heap, expression, 1), 0)].value.s
            \o Text_openParen \o arguments.text \o Text_closeParen
            \o IF isParentKind(heap, expression, SyntaxKind.Block)
               THEN Text_semicolon ELSE <<>>)])

emitStatement(heap, statement) ==
    CASE heap[statement].kind = SyntaxKind.VarDeclStatement ->
             emitVarDeclStatement(heap, statement)
      [] heap[statement].kind = SyntaxKind.InvocationExpression ->
             emitInvocationExpression(heap, statement)
      [] OTHER ->
             EmitThrew(EmitterError(<<"The statement '",
                                      kindText(heap[statement].kind),
                                      "' is not supported.">>))

RECURSIVE emitBlock(_, _)
RECURSIVE emitBlockChildren(_, _, _)

\* A variant of emitBlockChildren that emits the statements of a nested
\* block in place, without its braces.
emitBlockChildren_Inline(heap, block, index) ==
    IF index >= Len(heap[block].children) THEN Emitted(<<>>)
    ELSE IF heap[child(heap, block, index)].kind = SyntaxKind.Block
    THEN ThenEmit(emitBlockChildren(heap, child(heap, block, index), 0),
                  [nested \in Any |->
         ThenEmit(emitBlockChildren(heap, block, index + 1), [rest \in Any |->
         Emitted(nested.text \o rest.text)])])
    ELSE ThenEmit(emitStatement(heap, child(heap, block, index)),
                  [statement \in Any |->
         ThenEmit(emitBlockChildren(heap, block, index + 1), [rest \in Any |->
         Emitted(Text_indent \o statement.text \o rest.text)])])

\* The forEach of emitBlock over block.children, from the 0-based index on.
emitBlockChildren(heap, block, index) ==
    IF index >= Len(heap[block].children) THEN Emitted(<<>>)
    ELSE IF heap[child(heap, block, index)].kind = SyntaxKind.Block
    THEN ThenEmit(emitBlock(heap, child(heap, block, index)),
                  [nested \in Any |->
         ThenEmit(emitBlockChildren(heap, block, index + 1), [rest \in Any |->
         Emitted(nested.text \o rest.text)])])
    ELSE ThenEmit(emitStatement(heap, child(heap, block, index)),
                  [statement \in Any |->
         ThenEmit(emitBlockChildren(heap, block, index + 1), [rest \in Any |->
         Emitted(Text_indent \o statement.text \o rest.text)])])

emitBlock(heap, block) ==
    ThenEmit(emitBlockChildren(heap, block, 0), [children \in Any |->
    Emitted(Text_openBrace \o children.text \o Text_closeBrace)])

\* A variant of emitProgram that declares the function and does not call it.
emitProgram_Declaration(heap, program) ==
    ThenEmit(emitBlock(heap, child(heap, program, 2)), [block \in Any |->
    Emitted(Tail(Text_function)
            \o heap[child(heap, child(heap, program, 1), 0)].value.s
            \o Text_parens \o block.text)])

emitProgram(heap, program) ==
    ThenEmit(emitBlock(heap, child(heap, program, 2)), [block \in Any |->
    Emitted(Text_function
            \o heap[child(heap, child(heap, program, 1), 0)].value.s
            \o Text_parens \o block.text \o Text_invoke)])

emit(heap, node) == emitProgram(heap, node)

(***************************************************************************)
(* Source texts.                                                           *)
(*   Expression programs    program P{let x=E;}  for every expression text *)
(*                          E of the grammar with at most MaxOps operators *)
(*   Block programs         program P{ items }  for every sequence of at   *)
(*                          most MaxItems items out of BlockItems          *)
(*   Samples                fixed texts with white space, line breaks,     *)
(*                          strings and identifiers                        *)
(*   Unclosed programs      a program of the grammar with one closing      *)
(*                          brace token removed                            *)
(*   Lexer texts            every text of at most MaxLexLen characters out *)
(*                          of LexAlphabet                                 *)
(***************************************************************************)
MaxOps == 2
MaxItems == 3
MaxLexLen == 3

RECURSIVE Concat(_)
Concat(seqs) == IF seqs = <<>> THEN <<>> ELSE Head(seqs) \o Concat(Tail(seqs))

\* An operand not yet numbered.
Hole == CharCodes.nullCharacter

BinaryOperators == {<<CharCodes.plus>>, <<CharCodes.minus>>,
                    <<CharCodes.asterisk>>, <<CharCodes.slash>>}
UnaryOperators == {<<CharCodes.plus>>, <<CharCodes.minus>>}
Text_callF == Word_call \o <<32, 102, 32>>                      \* "call f "

\* The expression texts of the grammar built with exactly n operators
\* (binary, unary, parentheses, invocation), operands left as holes.
RECURSIVE ExprShapes(_)
ExprShapes(n) ==
    IF n = 0 THEN {<<Hole>>}
    ELSE LET splits == {ij \in (0..(n - 1)) \X (0..(n - 1)) : ij[1] + ij[2] = n - 1}
         IN UNION {
              {a \o op \o b : a \in ExprShapes(ij[1]), b \in ExprShapes(ij[2]),
                              op \in BinaryOperators} : ij \in splits}
            \cup {op \o a : op \in UnaryOperators, a \in ExprShapes(n - 1)}
            \cup {<<CharCodes.openParen>> \o a \o <<CharCodes.closeParen>> :
                      a \in ExprShapes(n - 1)}
            \cup {Text_callF \o a : a \in ExprShapes(n - 1)}
            \cup UNION {
              {Text_callF \o a \o <<CharCodes.bar>> \o b :
                   a \in ExprShapes(ij[1]), b \in ExprShapes(ij[2])} : ij \in splits}

\* The k-th hole from the left becomes the digit k.
RECURSIVE NumberHoles(_, _)
NumberHoles(text, k) ==
    IF text = <<>> THEN <<>>
    ELSE IF Head(text) = Hole
    THEN <<CharCodes.d0 + k>> \o NumberHoles(Tail(text), k + 1)
    ELSE <<Head(text)>> \o NumberHoles(Tail(text), k)

ExprTexts == {NumberHoles(e, 1) : e \in UNION {ExprShapes(n) : n \in 0..MaxOps}}

Text_programP == Word_program \o <<32, 80, 123>>                \* "program P{"
Text_letX == Word_let \o <<32, 120, 61>>                        \* "let x="
Text_end == <<59, 125>>                                         \* ";}"

ExprProgram(e) == Text_programP \o Text_letX \o e \o Text_end
ExprPrograms == {ExprProgram(e) : e \in ExprTexts}

Item_open == <<123>>                                            \* "{"
Item_close == <<125>>                                           \* "}"
Item_let == Word_let \o <<32, 97, 59>>                          \* "let a;"
Item_call == Word_call \o <<32, 102, 32, 49, 59>>               \* "call f 1;"
BlockItems == {Item_open, Item_close, Item_let, Item_call}

ItemSeqs == UNION {[1..k -> BlockItems] : k \in 0..MaxItems}

BlockProgram(items) == Text_programP \o Concat(items) \o Item_close
BlockPrograms == {BlockProgram(items) : items \in ItemSeqs}

\* The nesting depth after the items, -1 once a brace closed nothing.
RECURSIVE Depth(_, _)
Depth(items, d) ==
    IF d < 0 \/ items = <<>> THEN d
    ELSE Depth(Tail(items),
               IF Head(items) = Item_open THEN d + 1
               ELSE IF Head(items) = Item_close THEN d - 1
               ELSE d)

\* The block programs of the grammar: every brace has its partner.
BalancedPrograms == {BlockProgram(items) : items \in {s \in ItemSeqs : Depth(s, 0) = 0}}

\* program P { }
Sample_empty ==
    <<112, 114, 111, 103, 114, 97, 109, 32, 80, 32, 123, 32, 125>>
\* program P { let x = 1 + 2 * 3; }
Sample_precedence ==
    <<112, 114, 111, 103, 114, 97, 109, 32, 80, 32, 123, 32, 108, 101, 116, 32, 120, 32, 61, 32, 49, 32, 43, 32, 50, 32, 42, 32, 51, 59, 32, 125>>
\* \r\n\tprogram Main\r\n{\n  let s = "a{b}";\r  {\n    call say s | \'x;\' ;\n  }\n}\n
Sample_layout ==
    <<13, 10, 9, 112, 114, 111, 103, 114, 97, 109, 32, 77, 97, 105, 110, 13, 10, 123, 10, 32, 32, 108, 101, 116, 32, 115, 32, 61, 32, 34, 97, 123, 98, 125, 34, 59, 13, 32, 32, 123, 10, 32, 32, 32, 32, 99, 97, 108, 108, 32, 115, 97, 121, 32, 115, 32, 124, 32, 39, 120, 59, 39, 32, 59, 10, 32, 32, 125, 10, 125, 10>>
\* program P{call f 1}
Sample_noSemicolon ==
    <<112, 114, 111, 103, 114, 97, 109, 32, 80, 123, 99, 97, 108, 108, 32, 102, 32, 49, 125>>
\* program P{let a;let b=a;let n=10.50;call f "s"|n|b;}
Sample_atoms ==
    <<112, 114, 111, 103, 114, 97, 109, 32, 80, 123, 108, 101, 116, 32, 97, 59, 108, 101, 116, 32, 98, 61, 97, 59, 108, 101, 116, 32, 110, 61, 49, 48, 46, 53, 48, 59, 99, 97, 108, 108, 32, 102, 32, 34, 115, 34, 124, 110, 124, 98, 59, 125>>
\* program P{let s="ab;}
Sample_openString ==
    <<112, 114, 111, 103, 114, 97, 109, 32, 80, 123, 108, 101, 116, 32, 115, 61, 34, 97, 98, 59, 125>>
\* program P{let 1abc;}
Sample_digitName ==
    <<112, 114, 111, 103, 114, 97, 109, 32, 80, 123, 108, 101, 116, 32, 49, 97, 98, 99, 59, 125>>
\* program P{let _abc;}
Sample_underscoreName ==
    <<112, 114, 111, 103, 114, 97, 109, 32, 80, 123, 108, 101, 116, 32, 95, 97, 98, 99, 59, 125>>

\* program P{let y=call g 2;call f call h 1|-call k 3;}
Sample_invocations ==
    <<112, 114, 111, 103, 114, 97, 109, 32, 80, 123, 108, 101, 116, 32, 121, 61, 99, 97, 108, 108, 32, 103, 32, 50, 59, 99, 97, 108, 108, 32, 102, 32, 99, 97, 108, 108, 32, 104, 32, 49, 124, 45, 99, 97, 108, 108, 32, 107, 32, 51, 59, 125>>

\* program P{let a;let b=-(a+1)*2/a-1;call f b;}
Sample_arities ==
    <<112, 114, 111, 103, 114, 97, 109, 32, 80, 123, 108, 101, 116, 32, 97, 59, 108, 101, 116, 32, 98, 61, 45, 40, 97, 43, 49, 41, 42, 50, 47, 97, 45, 49, 59, 99, 97, 108, 108, 32, 102, 32, 98, 59, 125>>

\* program P{let x=1 @;}
Sample_unknownChar ==
    <<112, 114, 111, 103, 114, 97, 109, 32, 80, 123, 108, 101, 116, 32, 120, 61, 49, 32, 64, 59, 125>>
\* program P{call f 1 2;}
Sample_noSeparator ==
    <<112, 114, 111, 103, 114, 97, 109, 32, 80, 123, 99, 97, 108, 108, 32, 102, 32, 49, 32, 50, 59, 125>>
\* program P{let and=1;}
Sample_andName ==
    <<112, 114, 111, 103, 114, 97, 109, 32, 80, 123, 108, 101, 116, 32, 97, 110, 100, 61, 49, 59, 125>>
\* and land call let program lets
Sample_words ==
    <<97, 110, 100, 32, 108, 97, 110, 100, 32, 99, 97, 108, 108, 32, 108, 101, 116, 32, 112, 114, 111, 103, 114, 97, 109, 32, 108, 101, 116, 115>>

\* program P{let x=8-(4-2)-1*(6/3)/2;}
Sample_associativity ==
    <<112, 114, 111, 103, 114, 97, 109, 32, 80, 123, 108, 101, 116, 32, 120, 61, 56, 45, 40, 52, 45, 50, 41, 45, 49, 42, 40, 54, 47, 51, 41, 47, 50, 59, 125>>

\* a \u00A0\u0009b;\u00A0 c
Sample_whitespaceRuns ==
    <<97, 32, 160, 9, 98, 59, 160, 32, 99>>

\* a\u000D\u000Ab\u000Ac\u000Dd\u000A\u000D\u000D\u000Ae\u000D
Sample_lineBreaks ==
    <<97, 13, 10, 98, 10, 99, 13, 100, 10, 13, 13, 10, 101, 13>>

\* 12.5.3 10.50 7. 42
Sample_numbers ==
    <<49, 50, 46, 53, 46, 51, 32, 49, 48, 46, 53, 48, 32, 55, 46, 32, 52, 50>>

\* "it's" '' "" 'a"b'
Sample_strings ==
    <<34, 105, 116, 39, 115, 34, 32, 39, 39, 32, 34, 34, 32, 39, 97, 34, 98, 39>>

\* ab\u00A0c \u00E91_ x\u00D7y
Sample_nonAscii ==
    <<97, 98, 160, 99, 32, 233, 49, 95, 32, 120, 215, 121>>

\* program P{call f;}
Sample_callNoArgument ==
    <<112, 114, 111, 103, 114, 97, 109, 32, 80, 123, 99, 97, 108, 108, 32, 102, 59, 125>>

\* program P{let x=call f}
Sample_callThenBrace ==
    <<112, 114, 111, 103, 114, 97, 109, 32, 80, 123, 108, 101, 116, 32, 120, 61, 99, 97, 108, 108, 32, 102, 125>>

\* program P{call f 1;call g
Sample_callThenEnd ==
    <<112, 114, 111, 103, 114, 97, 109, 32, 80, 123, 99, 97, 108, 108, 32, 102, 32, 49, 59, 99, 97, 108, 108, 32, 103>>

\* program P{} program Q{}
Sample_secondProgram ==
    <<112, 114, 111, 103, 114, 97, 109, 32, 80, 123, 125, 32, 112, 114, 111, 103, 114, 97, 109, 32, 81, 123, 125>>

\* program P{let x;} call f 1;
Sample_statementAfter ==
    <<112, 114, 111, 103, 114, 97, 109, 32, 80, 123, 108, 101, 116, 32, 120, 59, 125, 32, 99, 97, 108, 108, 32, 102, 32, 49, 59>>

Sample_digitRun == <<49, 97, 98, 99>>                           \* 1abc
Sample_underscoreRun == <<95, 97, 98, 99>>                      \* _abc

\* The samples that are programs of the grammar.
ValidSamples ==
    {Sample_empty, Sample_precedence, Sample_layout, Sample_noSemicolon,
     Sample_atoms, Sample_invocations, Sample_arities,
     Sample_associativity}
Samples ==
    ValidSamples \cup {Sample_openString, Sample_digitName, Sample_underscoreName,
                       Sample_digitRun, Sample_underscoreRun,
                       Sample_unknownChar, Sample_noSeparator, Sample_andName,
                       Sample_words,
                       Sample_whitespaceRuns,
                       Sample_lineBreaks,
                       Sample_numbers,
                       Sample_strings,
                       Sample_nonAscii,
                       Sample_callNoArgument,
                       Sample_callThenBrace,
                       Sample_callThenEnd,
                       Sample_secondProgram,
                       Sample_statementAfter}

\* The programs of the canonical grammar among the sources.
ValidPrograms == ExprPrograms \cup BalancedPrograms \cup ValidSamples

Programs == ExprPrograms \cup BlockPrograms \cup Samples

\* 1, a, _, ", ' and the space
LexAlphabet ==
    {CharCodes.d0 + 1, CharCodes.a, CharCodes.underscore,
     CharCodes.doubleQuote, CharCodes.singleQuote, CharCodes.space}
LexTexts == UNION {[1..k -> LexAlphabet] : k \in 0..MaxLexLen}

\* A parser over a lexer at the start of the text: new Parser(new Lexer(text)).
\* The constructor reads the first token; err is set when that read threw.
NewParser(text, pos, heap) ==
    With(next(text, pos), [r \in Any |->
        [source |-> text, pos |-> r.pos,
         token |-> IF r.err = NoError THEN Len(heap) + 1 ELSE 0,
         heap |-> IF r.err = NoError THEN Append(heap, r.token) ELSE heap,
         err |-> r.err]])

\* new Parser(new Lexer(text)).parse()
Compile(text) ==
    ThenState(NewParser(text, 0, <<>>), [parser \in Any |-> parse(parser)])

Accepted(text) == ~Threw(Compile(text))

\* The enumeration of next() from the position pos up to the end-of-file
\* token or the first exception: the start, the token and the exception of
\* each call.
RECURSIVE Enumerate(_, _)
Enumerate(text, pos) ==
    With(next(text, pos), [r \in Any |->
        IF r.err # NoError \/ r.token.kind = SyntaxKind.EndOfFileToken
        THEN <<[start |-> pos, end |-> r.pos, token |-> r.token, err |-> r.err]>>
        ELSE <<[start |-> pos, end |-> r.pos, token |-> r.token, err |-> r.err]>>
                 \o Enumerate(text, r.pos)])

\* The 0-based positions of the closing brace tokens of a text.
CloseBraces(text) ==
    With(Enumerate(text, 0), [tokens \in Any |->
        {tokens[i].start :
             i \in {j \in 1..Len(tokens) :
                       tokens[j].token.kind = SyntaxKind.CloseBraceToken}}])

RemoveAt(text, p) == SubSeq(text, 1, p) \o SubSeq(text, p + 2, Len(text))

\* A program of the grammar with one of its closing brace tokens removed.
UnclosedPrograms ==
    UNION {{RemoveAt(text, p) : p \in CloseBraces(text)} : text \in ValidPrograms}

Sources == Programs \cup UnclosedPrograms \cup LexTexts

(***************************************************************************)
(* The pipeline as a state machine: a Lexer over one source text, which    *)
(* its user enumerates with next() and rewinds with reset(); a Parser over *)
(* that lexer; the tree parse() returned; the text emit() returned.        *)
(***************************************************************************)
MaxEofReads == 2
MaxParses == 2

VARIABLES
    source,     \* Lexer.source
    pos,        \* Lexer.pos
    lexed,      \* what the calls of next() since construction or reset() gave
    enumerated, \* the calls up to the end-of-file token that the last reset()
                \* after such a token ended (<<>>: no such reset so far)
    stage,      \* "lexer", "parser", "stepping", "parsed", "emitted", or "threw"
    token,      \* Parser.token, a heap index (0: no parser)
    heap,       \* the syntax items created so far
    tree,       \* the tree of the last parse() that returned (0: none)
    parses,     \* the number of calls of parse()
    thrown,     \* the exception of the last call, NoError when it returned
    output      \* the text of the last emit() that returned

vars == <<source, pos, lexed, enumerated, stage, token, heap, tree, parses,
          thrown, output>>

InitOver(texts) ==
    /\ source \in texts
    /\ pos = 0
    /\ lexed = <<>>
    /\ enumerated = <<>>
    /\ stage = "lexer"
    /\ token = 0
    /\ heap = <<>>
    /\ tree = 0
    /\ parses = 0
    /\ thrown = NoError
    /\ output = <<>>

Init == InitOver(Sources)

EofReads(entries) ==
    Cardinality({i \in 1..Len(entries) :
                    /\ entries[i].err = NoError
                    /\ entries[i].token.kind = SyntaxKind.EndOfFileToken})

\* The user of the lexer calls next().
LexerNext ==
    /\ stage = "lexer"
    /\ pos > lastPos(source) => EofReads(lexed) < MaxEofReads
    /\ \E r \in {next(source, pos)} :
          /\ pos' = r.pos
          /\ lexed' = Append(lexed, [start |-> pos, end |-> r.pos,
                                     token |-> r.token, err |-> r.err])
          /\ thrown' = r.err
    /\ UNCHANGED <<source, enumerated, stage, token, heap, tree, parses, output>>

\* The calls of an enumeration up to its first end-of-file token; the
\* end-of-file tokens of an enumeration are its last entries.
UpToEndOfFile(entries) ==
    SubSeq(entries, 1, Len(entries) - EofReads(entries) + 1)

\* reset() that leaves the cursor where it is.
LexerReset_KeepCursor ==
    /\ stage = "lexer"
    /\ lexed # <<>>
    /\ pos' = pos
    /\ lexed' = <<>>
    /\ enumerated' = IF EofReads(lexed) > 0 THEN UpToEndOfFile(lexed)
                                            ELSE enumerated
    /\ thrown' = NoError
    /\ UNCHANGED <<source, stage, token, heap, tree, parses, output>>

\* The user of the lexer calls reset().
LexerReset ==
    /\ stage = "lexer"
    /\ lexed # <<>>
    /\ pos' = 0
    /\ lexed' = <<>>
    /\ enumerated' = IF EofReads(lexed) > 0 THEN UpToEndOfFile(lexed)
                                            ELSE enumerated
    /\ thrown' = NoError
    /\ UNCHANGED <<source, stage, token, heap, tree, parses, output>>

\* new Parser(lexer), over a lexer at the start of its text as in
\* Application.compile.  The user's own enumeration of the lexer is over:
\* its records are dropped.
ParserNew ==
    /\ stage = "lexer"
    /\ pos = 0
    /\ \E parser \in {NewParser(source, pos, heap)} :
          /\ pos' = parser.pos
          /\ token' = parser.token
          /\ heap' = parser.heap
          /\ thrown' = parser.err
          /\ stage' = IF parser.err = NoError THEN "parser" ELSE "threw"
    /\ lexed' = <<>>
    /\ enumerated' = <<>>
    /\ UNCHANGED <<source, tree, parses, output>>

\* parser.parse()
ParserParse ==
    /\ stage \in {"parser", "parsed"}
    /\ parses < MaxParses
    /\ \E r \in {parse([source |-> source, pos |-> pos, token |-> token,
                          heap |-> heap, err |-> NoError])} :
          /\ pos' = r.st.pos
          /\ token' = r.st.token
          /\ heap' = r.st.heap
          /\ thrown' = r.st.err
          /\ tree' = IF Threw(r) THEN tree ELSE r.value
          /\ stage' = IF Threw(r) THEN "threw" ELSE "parsed"
    /\ parses' = parses + 1
    /\ UNCHANGED <<source, lexed, enumerated, output>>

\* The kinds of tokens.
TokenKinds == {SyntaxKind[n] : n \in {m \in KindNames : SyntaxKind[m] < 1000}}

\* The kinds that the parser's own calls of parseExpectedToken name most.
ExpectedKinds == {SyntaxKind.IdentifierToken, SyntaxKind.SemicolonToken}

\* The errors of the lexer.
Lexical(err) ==
    \/ err = SyntaxError(<<"Unterminated string literal.">>)
    \/ err = InvalidIdentifier(err.quoted)

\* The parser and its lexer as they are now.
ThisParser ==
    [source |-> source, pos |-> pos, token |-> token, heap |-> heap,
     err |-> NoError]

\* The end-of-file tokens read so far by the parser.
EofTokens(h) ==
    Cardinality({i \in 1..Len(h) : h[i].kind = SyntaxKind.EndOfFileToken})

\* parser.parseOptionalToken(kind), called on a parser that parse() was not
\* called on: the parser is driven either by parse() or token by token,
\* until the lexer throws.
ParserOptionalToken ==
    /\ stage \in {"parser", "stepping"}
    /\ EofTokens(heap) <= MaxEofReads
    /\ \E kind \in ExpectedKinds \cup {tokenKind(ThisParser)} :
       \E r \in {parseOptionalToken(ThisParser, kind)} :
          /\ pos' = r.st.pos
          /\ token' = r.st.token
          /\ heap' = r.st.heap
          /\ thrown' = r.st.err
          /\ stage' = IF Lexical(r.st.err) THEN "threw" ELSE "stepping"
    /\ UNCHANGED <<source, lexed, enumerated, tree, parses, output>>

\* parser.parseExpectedToken(kind), called on such a parser.
ParserExpectedToken ==
    /\ stage \in {"parser", "stepping"}
    /\ EofTokens(heap) <= MaxEofReads
    /\ \E kind \in ExpectedKinds :
       \E r \in {parseExpectedToken(ThisParser, kind)} :
          /\ pos' = r.st.pos
          /\ token' = r.st.token
          /\ heap' = r.st.heap
          /\ thrown' = r.st.err
          /\ stage' = IF Lexical(r.st.err) THEN "threw" ELSE "stepping"
    /\ UNCHANGED <<source, lexed, enumerated, tree, parses, output>>

\* emitter.emit(tree)
EmitterEmit ==
    /\ stage = "parsed"
    /\ \E r \in {emit(heap, tree)} :
          /\ output' = IF r.err = NoError THEN r.text ELSE output
          /\ thrown' = r.err
          /\ stage' = IF r.err = NoError THEN "emitted" ELSE "threw"
    /\ UNCHANGED <<source, pos, lexed, enumerated, token, heap, tree, parses>>

Next ==
    \/ LexerNext
    \/ LexerReset
    \/ ParserNew
    \/ ParserParse
    \/ ParserOptionalToken
    \/ ParserExpectedToken
    \/ EmitterEmit

Spec == Init /\ [][Next]_vars

(***************************************************************************)
(* Observations of a tree and of a text, in which the properties below are *)
(* stated.                                                                 *)
(***************************************************************************)
\* The items of the tree under an item.
RECURSIVE Subtree(_, _)
Subtree(h, id) ==
    IF id = 0 THEN {}
    ELSE {id} \cup UNION {Subtree(h, h[id].children[i]) :
                             i \in 1..Len(h[id].children)}

NodesOfKind(h, root, kind) == {id \in Subtree(h, root) : h[id].kind = kind}

\* The block of a program node.
ProgramBlock(h, program) == child(h, program, 2)

\* The statements of a tree: the children of its blocks that are not blocks.
Statements(h, root) ==
    {id \in Subtree(h, root) :
        /\ h[id].kind # SyntaxKind.Block
        /\ \E b \in NodesOfKind(h, root, SyntaxKind.Block) :
              id \in Range(h[b].children)}

Count(text, ch) == Cardinality({i \in 1..Len(text) : text[i] = ch})

OccursAt(whole, text, i) ==
    /\ i + Len(text) - 1 <= Len(whole)
    /\ SubSeq(whole, i, i + Len(text) - 1) = text

Contains(whole, text) == \E i \in 1..Len(whole) : OccursAt(whole, text, i)

StartsWith(whole, text) == OccursAt(whole, text, 1)

EndsWith(whole, text) ==
    /\ Len(text) <= Len(whole)
    /\ OccursAt(whole, text, Len(whole) - Len(text) + 1)

\* The k-th smallest member of a set of numbers.
Nth(S, k) == CHOOSE x \in S : Cardinality({y \in S : y < x}) = k - 1

\* The rank of a member in a set of numbers.
Rank(S, x) == Cardinality({y \in S : y <= x})

(***************************************************************************)
(* C1  Every program of the grammar compiles: over a valid program neither *)
(* the construction of the parser, nor parse(), nor emit() of the returned *)
(* tree throws, and emit() returns a text.                                 *)
(***************************************************************************)
C1_ValidProgramsCompile ==
    (source \in ValidPrograms /\ parses <= 1) =>
        /\ stage # "threw"
        /\ stage = "emitted" => output # <<>>

(***************************************************************************)
(* C2  emit() of a tree parse() returned never throws the EmitterError of  *)
(* an unsupported expression or statement.                                 *)
(***************************************************************************)
C2_EmitterSupportsParsedTrees == thrown.type # "EmitterError"

(***************************************************************************)
(* C3  next() at a run of identifier characters that starts with a digit,  *)
(* or that starts with an underscore and is no keyword, throws a           *)
(* SyntaxError, and no identifier token is returned for the run.           *)
(***************************************************************************)
\* pos is where a run of identifier characters begins.
RunStartsAt(text, p) ==
    /\ isIdentifierPart(charCodeAt(text, p))
    /\ p > 0 => ~isIdentifierPart(charCodeAt(text, p - 1))

\* The run at pos starts with a digit and goes on past its digits.
DigitLedRun(text, p) ==
    /\ RunStartsAt(text, p)
    /\ isDigit(charCodeAt(text, p))
    /\ WhileIdentifierPart(text, p) > WhileDigit(text, p)

\* The run at pos starts with an underscore and is not a keyword.
UnderscoreLedRun(text, p) ==
    /\ RunStartsAt(text, p)
    /\ charCodeAt(text, p) = CharCodes.underscore
    /\ KeywordSyntaxKindMap(substring(text, p, WhileIdentifierPart(text, p)))
           = UndefinedKind

\* An identifier token was returned from inside the run at p.
IdentifierFromRun(entries, text, p) ==
    \E j \in 1..Len(entries) :
        /\ entries[j].err = NoError
        /\ entries[j].token.kind = SyntaxKind.IdentifierToken
        /\ entries[j].start >= p
        /\ entries[j].start < WhileIdentifierPart(text, p)

C3_InvalidIdentifierRunsThrow ==
    \A i \in 1..Len(lexed) :
        (DigitLedRun(source, lexed[i].start)
            \/ UnderscoreLedRun(source, lexed[i].start)) =>
            /\ lexed[i].err.type = "SyntaxError"
            /\ ~IdentifierFromRun(lexed, source, lexed[i].start)

(***************************************************************************)
(* C4  next() at a quote that does not reappear before the end of the      *)
(* source throws SyntaxError 'Unterminated string literal.', and the       *)
(* enumeration gives no token for the text from the quote on: every other  *)
(* call returned a token that ends before the quote, or the end-of-file    *)
(* token.                                                                  *)
(***************************************************************************)
UnterminatedAt(text, p) ==
    /\ charCodeAt(text, p) \in {CharCodes.doubleQuote, CharCodes.singleQuote}
    /\ \A q \in (p + 1)..lastPos(text) : charCodeAt(text, q) # charCodeAt(text, p)

C4_UnterminatedStringThrows ==
    \A i \in 1..Len(lexed) :
        UnterminatedAt(source, lexed[i].start) =>
            /\ lexed[i].err = SyntaxError(<<"Unterminated string literal.">>)
            /\ \A j \in 1..Len(lexed) :
                  j # i =>
                      \/ lexed[j].end <= lexed[i].start
                      \/ /\ lexed[j].err = NoError
                         /\ lexed[j].token.kind = SyntaxKind.EndOfFileToken
                         /\ lexed[j].token.text = <<>>

\* next() threw at an unterminated string and was called again.
C4_EnumeratedPastUnterminatedString ==
    \E i \in 1..Len(lexed) :
        /\ UnterminatedAt(source, lexed[i].start)
        /\ lexed[i].start > 0
        /\ i < Len(lexed)

(***************************************************************************)
(* C5  parse() of a program that lacks the closing brace of one of its     *)
(* blocks throws, and when the end of the file was reached it throws       *)
(* SyntaxError 'Unterminated block.'.                                      *)
(***************************************************************************)
C5_UnclosedBlockIsUnterminated ==
    (parses = 1 /\ source \in UnclosedPrograms) =>
        /\ stage = "threw"
        /\ heap[token].kind = SyntaxKind.EndOfFileToken =>
               thrown = SyntaxError(<<"Unterminated block.">>)

(***************************************************************************)
(* C6  Multiplicative operators bind tighter than additive ones: the       *)
(* initializer  a + b * c  parses to Add(a, Multiply(b, c)) and            *)
(* a * b + c  to Add(Multiply(a, b), c), likewise with - and /, and        *)
(* let x = 1 + 2 * 3;  is emitted as  let x = 1+2*3;                       *)
(***************************************************************************)
Additive == {<<CharCodes.plus>>, <<CharCodes.minus>>}
Multiplicative == {<<CharCodes.asterisk>>, <<CharCodes.slash>>}

BinaryKinds ==
    {SyntaxKind.AddExpression, SyntaxKind.SubtractExpression,
     SyntaxKind.MultiplyExpression, SyntaxKind.DivideExpression}

\* The node kind an operator stands for.
KindOfOperator(op) ==
    CASE op = <<CharCodes.plus>> -> SyntaxKind.AddExpression
      [] op = <<CharCodes.minus>> -> SyntaxKind.SubtractExpression
      [] op = <<CharCodes.asterisk>> -> SyntaxKind.MultiplyExpression
      [] op = <<CharCodes.slash>> -> SyntaxKind.DivideExpression

\* An expression of binary nodes over literals and names, written with a
\* pair of parentheses around every binary node.
RECURSIVE Grouping(_, _)
Grouping(h, id) ==
    IF h[id].kind \in BinaryKinds
    THEN <<CharCodes.openParen>> \o Grouping(h, child(h, id, 0))
             \o h[child(h, id, 1)].text
             \o Grouping(h, child(h, id, 2)) \o <<CharCodes.closeParen>>
    ELSE h[child(h, id, 0)].text

\* The kinds of the nodes of such an expression, parents first.
RECURSIVE Kinds(_, _)
Kinds(h, id) ==
    IF h[id].kind \in BinaryKinds
    THEN <<h[id].kind>> \o Kinds(h, child(h, id, 0)) \o Kinds(h, child(h, id, 2))
    ELSE <<h[id].kind>>

\* The initializer of the first statement of a program.
Initializer(h, program) == child(h, child(h, ProgramBlock(h, program), 0), 2)

Operand(k) == <<CharCodes.d0 + k>>
Parens(text) == <<CharCodes.openParen>> \o text \o <<CharCodes.closeParen>>
Number == SyntaxKind.NumericLiteralExpression

\* let x = 1+2*3;
Text_letPrecedence == <<108, 101, 116, 32, 120, 32, 61, 32, 49, 43, 50, 42, 51, 59>>

C6_MultiplicativeBindsTighter ==
    tree # 0 =>
        /\ \A add \in Additive, mul \in Multiplicative :
              /\ source = ExprProgram(Operand(1) \o add \o Operand(2) \o mul \o Operand(3)) =>
                    /\ Grouping(heap, Initializer(heap, tree))
                           = Parens(Operand(1) \o add \o Parens(Operand(2) \o mul \o Operand(3)))
                    /\ Kinds(heap, Initializer(heap, tree))
                           = <<KindOfOperator(add), Number, KindOfOperator(mul), Number, Number>>
              /\ source = ExprProgram(Operand(1) \o mul \o Operand(2) \o add \o Operand(3)) =>
                    /\ Grouping(heap, Initializer(heap, tree))
                           = Parens(Parens(Operand(1) \o mul \o Operand(2)) \o add \o Operand(3))
                    /\ Kinds(heap, Initializer(heap, tree))
                           = <<KindOfOperator(add), KindOfOperator(mul), Number, Number, Number>>
        /\ source = Sample_precedence =>
              /\ Kinds(heap, Initializer(heap, tree))
                     = <<SyntaxKind.AddExpression, Number,
                         SyntaxKind.MultiplyExpression, Number, Number>>
              /\ stage = "emitted" => Contains(output, Text_letPrecedence)

\* let x = 1 + 2 * 3;  was parsed to an Add node and emitted.
C6_PrecedenceSampleEmitted ==
    /\ source = Sample_precedence
    /\ stage = "emitted"
    /\ heap[Initializer(heap, tree)].kind = SyntaxKind.AddExpression

(***************************************************************************)
(* C7  emitInvocationExpression appends ';' exactly when the parent of the *)
(* invocation node is a Block: an invocation that is a statement of a      *)
(* block is emitted as  name(args);  and one inside an initializer, a      *)
(* binary or unary expression or an argument list as  name(args).          *)
(***************************************************************************)
\* The text of the name of an invocation.
InvocationName(h, id) == h[child(h, child(h, id, 1), 0)].text

\* (function P() {  let y = g(2);  f(h(1, -k(3)));  })();
Text_invocationsEmitted ==
    <<40, 102, 117, 110, 99, 116, 105, 111, 110, 32, 80, 40, 41, 32, 123,
      10, 9, 108, 101, 116, 32, 121, 32, 61, 32, 103, 40, 50, 41, 59,
      10, 9, 102, 40, 104, 40, 49, 44, 32, 45, 107, 40, 51, 41, 41, 41, 59,
      10, 125, 41, 40, 41, 59>>

C7_SemicolonOnlyAfterStatementInvocation ==
    tree # 0 =>
        /\ \A id \in NodesOfKind(heap, tree, SyntaxKind.InvocationExpression) :
              emitInvocationExpression(heap, id).err = NoError =>
                  /\ StartsWith(emitInvocationExpression(heap, id).text,
                                InvocationName(heap, id) \o Text_openParen)
                  /\ IF id \in Statements(heap, tree)
                     THEN /\ heap[heap[id].parent].kind = SyntaxKind.Block
                          /\ EndsWith(emitInvocationExpression(heap, id).text,
                                      Text_closeParen \o Text_semicolon)
                     ELSE /\ heap[heap[id].parent].kind # SyntaxKind.Block
                          /\ EndsWith(emitInvocationExpression(heap, id).text,
                                      Text_closeParen)
        /\ (source = Sample_invocations /\ stage = "emitted") =>
               output = Text_invocationsEmitted

\* A program with an invocation as a statement and invocations in an
\* initializer, in a unary expression and in an argument list was emitted.
C7_BothInvocationPlacesEmitted ==
    /\ source = Sample_invocations
    /\ stage = "emitted"
    /\ \E id \in NodesOfKind(heap, tree, SyntaxKind.InvocationExpression) :
          id \in Statements(heap, tree)
    /\ \E id \in NodesOfKind(heap, tree, SyntaxKind.InvocationExpression) :
          heap[heap[id].parent].kind = SyntaxKind.ArgumentList
    /\ \E id \in NodesOfKind(heap, tree, SyntaxKind.InvocationExpression) :
          heap[heap[id].parent].kind = SyntaxKind.UnaryMinusExpression
    /\ \E id \in NodesOfKind(heap, tree, SyntaxKind.InvocationExpression) :
          heap[heap[id].parent].kind = SyntaxKind.VarDeclStatement

(***************************************************************************)
(* C8  In the emitted text a statement of a block nested in another block  *)
(* is indented deeper, after its newline, than a statement of the          *)
(* enclosing block.                                                        *)
(***************************************************************************)
\* The 1-based indices of the newlines that begin the line of a statement:
\* those not followed by a closing brace.
StatementLines(text) ==
    {i \in 1..Len(text) :
        /\ text[i] = CharCodes.lineFeed
        /\ i < Len(text)
        /\ text[i + 1] # CharCodes.closeBrace}

\* The number of tabs and spaces from the 1-based index i on.
RECURSIVE Indentation(_, _)
Indentation(text, i) ==
    IF i <= Len(text) /\ text[i] \in {CharCodes.tab, CharCodes.space}
    THEN 1 + Indentation(text, i + 1)
    ELSE 0

\* The indentation of the line of a statement: statements are emitted, one
\* to a line, in the order in which they were parsed.
IndentationOf(h, root, text, statement) ==
    Indentation(text, Nth(StatementLines(text),
                          Rank(Statements(h, root), statement)) + 1)

C8_IndentationFollowsNesting ==
    stage = "emitted" =>
        \A inner, outer \in Statements(heap, tree) :
            heap[heap[inner].parent].parent = heap[outer].parent =>
                IndentationOf(heap, tree, output, inner)
                    > IndentationOf(heap, tree, output, outer)

(***************************************************************************)
(* C9  The braces emitBlock writes are balanced and mirror the tree: one   *)
(* '{' and one '}' per Block node, every '}' closing the last open '{',    *)
(* nested as the Block nodes are.                                          *)
(***************************************************************************)
\* The braces a block and the blocks in it stand for, in order.
RECURSIVE BlockBraces(_, _)
RECURSIVE BlockBracesFrom(_, _, _)
BlockBracesFrom(h, block, index) ==
    IF index >= Len(h[block].children) THEN <<>>
    ELSE (IF h[child(h, block, index)].kind = SyntaxKind.Block
          THEN BlockBraces(h, child(h, block, index)) ELSE <<>>)
             \o BlockBracesFrom(h, block, index + 1)
BlockBraces(h, block) ==
    <<CharCodes.openBrace>> \o BlockBracesFrom(h, block, 0)
        \o <<CharCodes.closeBrace>>

IsBrace(ch) == ch \in {CharCodes.openBrace, CharCodes.closeBrace}

\* The braces of a text, in order.
Braces(text) == SelectSeq(text, IsBrace)

Min(S) == CHOOSE x \in S : \A y \in S : x <= y

\* The 1-based indices, from i on, of the quotes of a text.
QuotesFrom(text, i) ==
    {k \in i..Len(text) :
        text[k] \in {CharCodes.doubleQuote, CharCodes.singleQuote}}

\* The 1-based indices after i of the character at i.
SameAfter(text, i) == {k \in (i + 1)..Len(text) : text[k] = text[i]}

\* The braces of a text outside its string literals from the 1-based index
\* i on, which is outside a string literal: those up to the next quote, and
\* those after the quote that closes it.
RECURSIVE BracesOutsideStrings(_, _)
BracesOutsideStrings(text, i) ==
    IF QuotesFrom(text, i) = {} THEN Braces(SubSeq(text, i, Len(text)))
    ELSE Braces(SubSeq(text, i, Min(QuotesFrom(text, i)) - 1))
             \o (IF SameAfter(text, Min(QuotesFrom(text, i))) = {} THEN <<>>
                 ELSE BracesOutsideStrings(
                          text, Min(SameAfter(text, Min(QuotesFrom(text, i)))) + 1))

\* Every closing brace of a sequence of braces closes an open one, and none
\* stays open.
RECURSIVE OpenAfter(_, _)
OpenAfter(braces, n) ==
    IF n = 0 THEN 0
    ELSE OpenAfter(braces, n - 1)
             + (IF braces[n] = CharCodes.openBrace THEN 1 ELSE 0 - 1)
Balanced(braces) ==
    /\ \A n \in 1..Len(braces) : OpenAfter(braces, n) >= 0
    /\ OpenAfter(braces, Len(braces)) = 0

\* As stated: of all the braces of the emitted text.
C9_EmittedBracesMirrorBlocks ==
    stage = "emitted" =>
        /\ Count(output, CharCodes.openBrace)
               = Cardinality(NodesOfKind(heap, tree, SyntaxKind.Block))
        /\ Count(output, CharCodes.closeBrace)
               = Cardinality(NodesOfKind(heap, tree, SyntaxKind.Block))
        /\ Balanced(Braces(output))
        /\ Braces(output) = BlockBraces(heap, ProgramBlock(heap, tree))

\* C9, of the braces of the emitted text outside its string literals, whose
\* text the emitter copies from the source: one '{' and one '}' per Block
\* node, balanced, nested as the Block nodes are.
C9_BlockBracesMirrorBlocks ==
    stage = "emitted" =>
        /\ Count(BracesOutsideStrings(output, 1), CharCodes.openBrace)
               = Cardinality(NodesOfKind(heap, tree, SyntaxKind.Block))
        /\ Count(BracesOutsideStrings(output, 1), CharCodes.closeBrace)
               = Cardinality(NodesOfKind(heap, tree, SyntaxKind.Block))
        /\ Balanced(BracesOutsideStrings(output, 1))
        /\ BracesOutsideStrings(output, 1)
               = BlockBraces(heap, ProgramBlock(heap, tree))

\* A program with a block in a block and a brace in a string literal was
\* emitted.
C9_NestedBlocksAndStringBracesEmitted ==
    /\ stage = "emitted"
    /\ \E b \in NodesOfKind(heap, tree, SyntaxKind.Block) :
          isParentKind(heap, b, SyntaxKind.Block)
    /\ Braces(output) # BracesOutsideStrings(output, 1)

(***************************************************************************)
(* C10  program P { }  parses to a Program node whose Block has no         *)
(* children, and is emitted as  (function P() {  newline  })();            *)
(***************************************************************************)
\* (function P() {\n})();
Text_emptyEmitted ==
    <<40, 102, 117, 110, 99, 116, 105, 111, 110, 32, 80, 40, 41, 32, 123,
      10, 125, 41, 40, 41, 59>>

C10_EmptyProgram ==
    (source = Sample_empty /\ parses >= 1) =>
        /\ stage # "threw" =>
              /\ heap[tree].kind = SyntaxKind.Program
              /\ heap[ProgramBlock(heap, tree)].kind = SyntaxKind.Block
              /\ heap[ProgramBlock(heap, tree)].children = <<>>
        /\ parses = 1 => stage # "threw"
        /\ stage = "emitted" => output = Text_emptyEmitted

\* program P { }  was parsed and emitted.
C10_EmptyProgramEmitted ==
    /\ source = Sample_empty
    /\ stage = "emitted"
    /\ Len(output) > 0

(***************************************************************************)
(* C11  Restartability: after reset(), the calls of next() give again the  *)
(* tokens (kind, text, value), cursor positions and exceptions of the      *)
(* enumeration that the reset() ended, call by call up to the end-of-file  *)
(* token.                                                                  *)
(***************************************************************************)
C11_SecondPassRepeatsFirst ==
    \A i \in 1..Len(lexed) :
        i <= Len(enumerated) => lexed[i] = enumerated[i]

\* A text of several tokens was enumerated to its end, reset, and
\* enumerated to its end again.
C11_EnumeratedTwice ==
    /\ Len(enumerated) > 3
    /\ Len(lexed) = Len(enumerated)
    /\ \E i \in 1..Len(lexed) :
          lexed[i].token.kind = SyntaxKind.StringLiteralToken

(***************************************************************************)
(* C12  A second parse() on the same Parser returns a tree of the same     *)
(* shape and the same node and token kinds as the tree of the first        *)
(* parse().                                                                *)
(***************************************************************************)
RECURSIVE Shape(_, _)
Shape(h, id) ==
    [kind |-> h[id].kind,
     children |-> [i \in 1..Len(h[id].children) |->
                      Shape(h, h[id].children[i])]]

\* The roots of the trees that the calls of parse() built.
Roots(h) ==
    {id \in 1..Len(h) : h[id].kind = SyntaxKind.Program}

C12_SecondParseSameShape ==
    parses >= 2 =>
        /\ stage # "threw"
        /\ \A root \in Roots(heap) : Shape(heap, root) = Shape(heap, tree)

(***************************************************************************)
(* C13  In every tree returned by parse(), an item's kind lies in the      *)
(* token range (isToken) exactly when the item is a SyntaxToken without    *)
(* children, and every node that has children has a kind of the node       *)
(* range (1000 and above).                                                 *)
(***************************************************************************)
C13_TokenKindsOnlyOnLeaves ==
    tree # 0 =>
        \A id \in Subtree(heap, tree) :
            /\ isToken(heap[id]) <=>
                  (heap[id].cls = "token" /\ heap[id].children = <<>>)
            /\ heap[id].children # <<>> => heap[id].kind >= 1000

(***************************************************************************)
(* C14  Every node of a tree returned by parse() has the arity of its      *)
(* grammar rule: a binary node has the children left expression, operator  *)
(* token, right expression and the kind of its operator (Add +,            *)
(* Subtract -, Multiply *, Divide /); Parenthesized, Program and           *)
(* Invocation nodes have three children, unary nodes two, IdentifierName   *)
(* and literal nodes one, and a VarDecl node three when an = initializer   *)
(* was written and two otherwise.                                          *)
(***************************************************************************)
\* The operator token of a kind of binary node.
OperatorTokenKind(kind) ==
    CASE kind = SyntaxKind.AddExpression -> SyntaxKind.PlusToken
      [] kind = SyntaxKind.SubtractExpression -> SyntaxKind.MinusToken
      [] kind = SyntaxKind.MultiplyExpression -> SyntaxKind.AsteriskToken
      [] kind = SyntaxKind.DivideExpression -> SyntaxKind.SlashToken

\* The unary nodes; the unary plus node is built with the kind PlusToken.
IsUnary(item) ==
    /\ item.cls = "node"
    /\ item.kind \in {SyntaxKind.PlusToken, SyntaxKind.UnaryPlusExpression,
                      SyntaxKind.UnaryMinusExpression}

\* The number of = tokens in a text.
IsEquals(entry) == entry.token.kind = SyntaxKind.EqualsToken
EqualsTokens(text) == Len(SelectSeq(Enumerate(text, 0), IsEquals))

Arity(h, id) == Len(h[id].children)

C14_NodesHaveGrammarArity ==
    tree # 0 =>
        /\ \A id \in Subtree(heap, tree) :
              /\ heap[id].kind \in BinaryKinds =>
                    /\ Arity(heap, id) = 3
                    /\ heap[child(heap, id, 0)].cls = "node"
                    /\ heap[child(heap, id, 1)].cls = "token"
                    /\ heap[child(heap, id, 1)].kind =
                           OperatorTokenKind(heap[id].kind)
                    /\ heap[child(heap, id, 2)].cls = "node"
              /\ heap[id].kind \in {SyntaxKind.ParenthesizedExpression,
                                    SyntaxKind.Program,
                                    SyntaxKind.InvocationExpression} =>
                    Arity(heap, id) = 3
              /\ IsUnary(heap[id]) => Arity(heap, id) = 2
              /\ heap[id].kind \in {SyntaxKind.IdentifierName,
                                    SyntaxKind.NumericLiteralExpression,
                                    SyntaxKind.StringLiteralExpression} =>
                    Arity(heap, id) = 1
              /\ heap[id].kind = SyntaxKind.VarDeclStatement =>
                    Arity(heap, id) \in {2, 3}
        /\ Cardinality({id \in NodesOfKind(heap, tree,
                                           SyntaxKind.VarDeclStatement) :
                           Arity(heap, id) = 3})
              = EqualsTokens(source)

\* A tree with declarations with and without initializer, and binary, unary,
\* parenthesized and invocation nodes was returned.
C14_AllAritiesParsed ==
    /\ source = Sample_arities
    /\ tree # 0
    /\ \E id \in NodesOfKind(heap, tree, SyntaxKind.VarDeclStatement) :
          Arity(heap, id) = 2
    /\ \E id \in NodesOfKind(heap, tree, SyntaxKind.VarDeclStatement) :
          Arity(heap, id) = 3
    /\ \A kind \in BinaryKinds \cup {SyntaxKind.UnaryMinusExpression,
                                     SyntaxKind.ParenthesizedExpression,
                                     SyntaxKind.InvocationExpression} :
          NodesOfKind(heap, tree, kind) # {}

(***************************************************************************)
(* C15  In every tree returned by parse(), each token and node other than  *)
(* the root is in exactly one children array, at one place, and its parent *)
(* is the node owning that array; the Program root has no parent.          *)
(***************************************************************************)
\* The places <<node, index>> of the children arrays that hold an item.
Places(h, id) ==
    UNION {{<<node, i>> : i \in {j \in 1..Len(h[node].children) :
                                      h[node].children[j] = id}} :
           node \in 1..Len(h)}

C15_TreeNotDag ==
    tree # 0 =>
        /\ heap[tree].parent = 0
        /\ Places(heap, tree) = {}
        /\ \A id \in Subtree(heap, tree) \ {tree} :
              /\ Cardinality(Places(heap, id)) = 1
              /\ \A place \in Places(heap, id) : heap[id].parent = place[1]

\* A tree with a declaration and an invocation in nested blocks was returned.
C15_NestedTreeParsed ==
    /\ source = Sample_layout
    /\ tree # 0
    /\ \E b \in NodesOfKind(heap, tree, SyntaxKind.Block) :
          /\ isParentKind(heap, b, SyntaxKind.Block)
          /\ \E s \in Range(heap[b].children) :
                heap[s].kind = SyntaxKind.InvocationExpression
    /\ NodesOfKind(heap, tree, SyntaxKind.VarDeclStatement) # {}

(***************************************************************************)
(* C16  When the cursor is past the last character (at once when the       *)
(* source is empty), next() returns an EndOfFileToken and leaves the       *)
(* cursor where it is; every further next() returns an EndOfFileToken      *)
(* again until reset() is called, and reset() sets the cursor to 0.        *)
(***************************************************************************)
IsEndOfFile(entry) ==
    /\ entry.err = NoError
    /\ entry.token.kind = SyntaxKind.EndOfFileToken

EndOfFileStays ==
    \A i \in 1..Len(lexed) :
        /\ lexed[i].start >= Len(source) =>
              /\ IsEndOfFile(lexed[i])
              /\ lexed[i].end = lexed[i].start
        /\ IsEndOfFile(lexed[i]) =>
              \A j \in i..Len(lexed) : IsEndOfFile(lexed[j])
        /\ i = Len(lexed) => pos = lexed[i].end

\* A step of the lexer's user that forgets the calls of next() made so far
\* is a reset().
ResetRewinds ==
    (stage' = "lexer" /\ lexed # <<>> /\ lexed' = <<>>) => pos' = 0

C16_EndOfFileUntilReset == [] EndOfFileStays /\ [][ResetRewinds]_vars

\* After a reset() that followed an end-of-file token, a text was enumerated
\* again and next() was called at its end several times.
C16_EndOfFileReadAgainAfterReset ==
    /\ Len(enumerated) > 1
    /\ EofReads(lexed) = MaxEofReads
    /\ pos = Len(source)

(***************************************************************************)
(* C17  Whenever the parser has advanced its cursor, the token it inspects *)
(* next is a keyword, identifier, literal, punctuation or end-of-file      *)
(* token: never whitespace trivia, an end-of-line token, or the kind-less  *)
(* token of a skipped character.                                           *)
(***************************************************************************)
\* The kinds of the tokens that carry meaning for the parser.
SignificantKinds ==
    TokenKinds \ {SyntaxKind.Unknown, SyntaxKind.WhiteSpaceTrivia,
                  SyntaxKind.EndOfLineToken}

\* The parser's current token is not the one its constructor read: the
\* cursor was advanced, by parse() or by a token primitive, and no error of
\* the lexer ended the advance.
Advanced ==
    /\ stage \in {"stepping", "parsed", "threw"}
    /\ token > 1
    /\ ~Lexical(thrown)

C17_ParserSeesSignificantTokens ==
    Advanced => heap[token].kind \in SignificantKinds

(***************************************************************************)
(* C18  In the argument lists of a tree returned by parse(), every         *)
(* argument after the first of its list was parsed after one | separator   *)
(* token of its own: the arguments after the first are as many as the |    *)
(* tokens of the source.                                                   *)
(***************************************************************************)
\* The number of | tokens in a text.
IsSeparator(entry) == entry.token.kind = SyntaxKind.VerticalBar
SeparatorTokens(text) == Len(SelectSeq(Enumerate(text, 0), IsSeparator))

\* The arguments that follow another argument in their list.
FurtherArguments(h, root) ==
    UNION {{<<list, i>> : i \in 2..Arity(h, list)} :
           list \in NodesOfKind(h, root, SyntaxKind.ArgumentList)}

C18_ArgumentsSeparated ==
    tree # 0 =>
        Cardinality(FurtherArguments(heap, tree)) = SeparatorTokens(source)

(***************************************************************************)
(* C19  The reserved words are exactly program, call and let: next() at a  *)
(* letter scans the whole run of identifier characters and returns a       *)
(* keyword token if and only if the run is one of these three words;       *)
(* every other run yields an IdentifierToken whose text and value are the  *)
(* run.                                                                    *)
(***************************************************************************)
ReservedWords == {Word_program, Word_call, Word_let}

\* The characters of text from position from up to, not including, to are
\* a whole run of identifier characters.
WholeRun(text, from, to) ==
    /\ from < to
    /\ \A p \in from..(to - 1) : isIdentifierPart(charCodeAt(text, p))
    /\ to <= lastPos(text) => ~isIdentifierPart(charCodeAt(text, to))

IsKeywordKind(kind) == kind >= 200 /\ kind < 300

C19_OnlyThreeReservedWords ==
    \A i \in 1..Len(lexed) :
        (lexed[i].start < Len(source)
            /\ isLetter(charCodeAt(source, lexed[i].start))) =>
            LET run == substring(source, lexed[i].start, lexed[i].end)
                scanned == lexed[i].token
            IN  /\ lexed[i].err = NoError
                /\ WholeRun(source, lexed[i].start, lexed[i].end)
                /\ IsKeywordKind(scanned.kind) <=> run \in ReservedWords
                /\ run \in ReservedWords =>
                       scanned.kind = KeywordSyntaxKindMap(run)
                /\ run \notin ReservedWords =>
                       /\ scanned.kind = SyntaxKind.IdentifierToken
                       /\ scanned.text = run
                       /\ scanned.value = StringValue(run)

(***************************************************************************)
(* C20  On a parser whose current token has another kind than the one      *)
(* asked for, parseOptionalToken returns nothing and leaves the current    *)
(* token and the cursor of the lexer as they are, and parseExpectedToken   *)
(* throws SyntaxError  <expected kind> expected instead of the token       *)
(* '<actual kind>'.  and consumes nothing either.  When the kinds match,   *)
(* both return the matched token and the current token becomes the next    *)
(* significant token (unless the lexer throws on the way).                 *)
(***************************************************************************)
\* The frame of a call that consumed nothing.
NothingConsumed(r) ==
    /\ r.st.token = token
    /\ r.st.pos = pos
    /\ r.st.heap = heap

\* The call returned the current token and moved on to the next token that
\* is not trivia, which is a significant one.
MatchedAndAdvanced(r) ==
    /\ ~Threw(r)
    /\ r.value = token
    /\ r.st.token = Len(r.st.heap)
    /\ r.st.token > Len(heap)
    /\ \A t \in (Len(heap) + 1)..(r.st.token - 1) :
          r.st.heap[t].kind \in {SyntaxKind.WhiteSpaceTrivia,
                                 SyntaxKind.EndOfLineToken}
    /\ r.st.heap[r.st.token].kind \in SignificantKinds

C20_TokenPrimitives ==
    stage \in {"parser", "stepping"} =>
        \A kind \in TokenKinds :
            LET optional == parseOptionalToken(ThisParser, kind)
                expected == parseExpectedToken(ThisParser, kind)
            IN  IF heap[token].kind # kind
                THEN /\ ~Threw(optional)
                     /\ optional.value = 0
                     /\ NothingConsumed(optional)
                     /\ Threw(expected)
                     /\ expected.st.err =
                            SyntaxError(<<kindText(kind),
                                          " expected instead of the token '",
                                          kindText(heap[token].kind), "'.">>)
                     /\ NothingConsumed(expected)
                ELSE /\ ~Lexical(optional.st.err) => MatchedAndAdvanced(optional)
                     /\ ~Lexical(expected.st.err) => MatchedAndAdvanced(expected)

(***************************************************************************)
(* C21  Binary operators of one tier (+ and -, or * and /) fold to the     *)
(* left:  a op1 b op2 c  parses to the node of op2 with the node of        *)
(* a op1 b  as its left child and c as its right child.  The right child   *)
(* of a binary node is never a binary node of the same tier: what the      *)
(* source parenthesized is held by a Parenthesized node.                   *)
(***************************************************************************)
AdditiveKinds == {SyntaxKind.AddExpression, SyntaxKind.SubtractExpression}
MultiplicativeKinds ==
    {SyntaxKind.MultiplyExpression, SyntaxKind.DivideExpression}

SameTier(kind, other) ==
    \/ kind \in AdditiveKinds /\ other \in AdditiveKinds
    \/ kind \in MultiplicativeKinds /\ other \in MultiplicativeKinds

\* The operands of a binary node.
Left(h, id) == child(h, id, 0)
Right(h, id) == child(h, id, 2)

C21_SameTierFoldsLeft ==
    tree # 0 =>
        /\ \A id \in Subtree(heap, tree) :
              heap[id].kind \in BinaryKinds =>
                  ~SameTier(heap[id].kind, heap[Right(heap, id)].kind)
        /\ \A tier \in {Additive, Multiplicative} :
           \A op1 \in tier, op2 \in tier :
              source = ExprProgram(Operand(1) \o op1 \o Operand(2)
                                       \o op2 \o Operand(3)) =>
                  /\ Grouping(heap, Initializer(heap, tree))
                         = Parens(Parens(Operand(1) \o op1 \o Operand(2))
                                      \o op2 \o Operand(3))
                  /\ Kinds(heap, Initializer(heap, tree))
                         = <<KindOfOperator(op2), KindOfOperator(op1),
                             Number, Number, Number>>

\* 8-(4-2)-1*(6/3)/2  was parsed: chains of both tiers, folded to the left,
\* with parenthesized right operands of the same tier.
C21_ChainsAndParenthesesParsed ==
    /\ source = Sample_associativity
    /\ tree # 0
    /\ \A kinds \in {AdditiveKinds, MultiplicativeKinds} :
          \E id \in Subtree(heap, tree) :
              /\ heap[id].kind \in kinds
              /\ heap[Left(heap, id)].kind \in kinds
              /\ \E inner \in Subtree(heap, Left(heap, id)) :
                    /\ heap[inner].kind \in kinds
                    /\ heap[Right(heap, inner)].kind
                           = SyntaxKind.ParenthesizedExpression
                    /\ heap[child(heap, Right(heap, inner), 1)].kind \in kinds

(***************************************************************************)
(* C22  next() at the start of a maximal run of single-line whitespace     *)
(* characters, whichever of them starts the run, returns one               *)
(* WhiteSpaceTrivia token whose text is the whole run and leaves the       *)
(* cursor behind the run.                                                  *)
(***************************************************************************)
\* The characters of text from position from up to, not including, to are
\* a maximal run of single-line whitespace.
WholeWhiteSpaceRun(text, from, to) ==
    /\ from < to
    /\ \A p \in from..(to - 1) : isWhiteSpaceSingleLine(charCodeAt(text, p))
    /\ from > 0 => ~isWhiteSpaceSingleLine(charCodeAt(text, from - 1))
    /\ to < Len(text) => ~isWhiteSpaceSingleLine(charCodeAt(text, to))

C22_WhiteSpaceRunIsOneToken ==
    \A i \in 1..Len(lexed) :
        (lexed[i].start < Len(source)
            /\ isWhiteSpaceSingleLine(charCodeAt(source, lexed[i].start))) =>
            /\ lexed[i].err = NoError
            /\ lexed[i].token.kind = SyntaxKind.WhiteSpaceTrivia
            /\ WholeWhiteSpaceRun(source, lexed[i].start, lexed[i].end)
            /\ lexed[i].token.text =
                   substring(source, lexed[i].start, lexed[i].end)

(***************************************************************************)
(* C23  next() at a carriage return that a line feed follows returns one   *)
(* EndOfLineToken and moves the cursor by two characters; at a line feed,  *)
(* or at a carriage return that no line feed follows (also as the last     *)
(* character of the source), it returns one EndOfLineToken and moves the   *)
(* cursor by one.                                                          *)
(***************************************************************************)
\* The length of the line break at a position of a text, 0 when none.
LineBreakAt(text, p) ==
    IF p >= Len(text) THEN 0
    ELSE IF text[p + 1] = CharCodes.lineFeed THEN 1
    ELSE IF text[p + 1] # CharCodes.carriageReturn THEN 0
    ELSE IF p + 1 < Len(text) /\ text[p + 2] = CharCodes.lineFeed THEN 2
    ELSE 1

C23_LineBreakIsOneToken ==
    \A i \in 1..Len(lexed) :
        LineBreakAt(source, lexed[i].start) > 0 =>
            /\ lexed[i].err = NoError
            /\ lexed[i].token.kind = SyntaxKind.EndOfLineToken
            /\ lexed[i].end =
                   lexed[i].start + LineBreakAt(source, lexed[i].start)

\* A text with every kind of line break was enumerated to its end, which
\* is a carriage return.
C23_LineBreaksEnumerated ==
    /\ source = Sample_lineBreaks
    /\ pos = Len(source)
    /\ \A n \in {1, 2} :
          \E i \in 1..Len(lexed) :
              /\ source[lexed[i].start + 1] = CharCodes.carriageReturn
              /\ lexed[i].end = lexed[i].start + n
    /\ \E i \in 1..Len(lexed) :
          /\ lexed[i].start = Len(source) - 1
          /\ lexed[i].token.kind = SyntaxKind.EndOfLineToken

\* The positions of the dots of a text.
Dots(text) == {p \in 1..Len(text) : text[p] = CharCodes.dot}

\* The entry is a numeric literal of the text: a run of digits that no digit
\* precedes or follows, then at most one dot with the run of at least
\* minFraction digits after it, which no digit follows; without a dot in
\* the token no dot follows it.  Its value is the number the text denotes:
\* the whole part and the significant digits of the fraction.
NumericLiteral(text, entry, minFraction) ==
    LET t == entry.token.text
        whole == IF Dots(t) = {} THEN Len(t)
                 ELSE (CHOOSE p \in Dots(t) : TRUE) - 1
    IN /\ t = substring(text, entry.start, entry.end)
       /\ Cardinality(Dots(t)) <= 1
       /\ whole >= 1
       /\ \A p \in 1..Len(t) : p \notin Dots(t) => isDigit(t[p])
       /\ ~isDigit(charCodeAt(text, entry.start - 1))
          \/ charCodeAt(text, entry.start - 1) = NaN
       /\ ~isDigit(charCodeAt(text, entry.end))
          \/ charCodeAt(text, entry.end) = NaN
       /\ Dots(t) = {} => charCodeAt(text, entry.end) # CharCodes.dot
       /\ Dots(t) # {} => Len(t) - whole - 1 >= minFraction
       /\ entry.token.value.t = "number"
       /\ entry.token.value.n = DigitsValue(SubSeq(t, 1, whole))
       /\ entry.token.value.s = StripZeros(SubSeq(t, whole + 2, Len(t)))

(***************************************************************************)
(* C24 as stated  Every NumericLiteralToken's text is a maximal run of     *)
(* digits, optionally followed by one dot and at least one more digit,     *)
(* and its value is the number the text denotes.                           *)
(***************************************************************************)
C24_FractionHasDigits ==
    \A i \in 1..Len(lexed) :
        lexed[i].token.kind = SyntaxKind.NumericLiteralToken =>
            NumericLiteral(source, lexed[i], 1)

(***************************************************************************)
(* C24 amended  Every NumericLiteralToken's text is a maximal run of       *)
(* digits, optionally followed by one dot and the possibly empty maximal   *)
(* run of digits after it (never more than one dot in a token), and its    *)
(* value is the number the text denotes.                                   *)
(***************************************************************************)
C24_NumericLiteralShape ==
    \A i \in 1..Len(lexed) :
        lexed[i].token.kind = SyntaxKind.NumericLiteralToken =>
            NumericLiteral(source, lexed[i], 0)

\* Numbers with a second dot, with trailing zeros, with a dot that no digit
\* follows and without a dot were enumerated.
C24_NumbersEnumerated ==
    /\ source = Sample_numbers
    /\ pos = Len(source)
    /\ \E i, j, k \in 1..Len(lexed) :
          /\ lexed[i].token.kind = SyntaxKind.NumericLiteralToken
          /\ Dots(lexed[i].token.text) = {Len(lexed[i].token.text)}
          /\ lexed[j].token.kind = SyntaxKind.NumericLiteralToken
          /\ Dots(lexed[j].token.text) = {3}
          /\ charCodeAt(source, lexed[j].end) = CharCodes.dot
          /\ lexed[k].token.kind = SyntaxKind.NumericLiteralToken
          /\ Dots(lexed[k].token.text) = {}

\* The quote characters.
Quotes == {CharCodes.doubleQuote, CharCodes.singleQuote}

\* The positions after from where the text has the character ch.
Later(text, from, ch) == {p \in (from + 1)..(Len(text) - 1) : text[p + 1] = ch}

(***************************************************************************)
(* C25  next() at a quote character q that occurs again later returns a    *)
(* StringLiteralToken that ends at the first later q, whatever other quote *)
(* characters lie between; its text spans both delimiters and its value is *)
(* the text without its first and last character.                          *)
(***************************************************************************)
C25_StringEndsAtSameQuote ==
    \A i \in 1..Len(lexed) :
        LET from == lexed[i].start
            q == charCodeAt(source, from)
            t == lexed[i].token.text
        IN (q \in Quotes /\ Later(source, from, q) # {}) =>
               /\ lexed[i].err = NoError
               /\ lexed[i].token.kind = SyntaxKind.StringLiteralToken
               /\ lexed[i].end - 1 \in Later(source, from, q)
               /\ \A p \in Later(source, from, q) : lexed[i].end - 1 <= p
               /\ t = substring(source, from, lexed[i].end)
               /\ lexed[i].token.value = StringValue(SubSeq(t, 2, Len(t) - 1))

\* Strings of both quote characters were enumerated: empty ones and ones
\* with the other quote character inside.
C25_StringsEnumerated ==
    /\ source = Sample_strings
    /\ pos = Len(source)
    /\ \A q \in Quotes :
          \E i, j \in 1..Len(lexed) :
              /\ lexed[i].token.text = <<q, q>>
              /\ lexed[i].token.value = StringValue(<<>>)
              /\ lexed[j].token.kind = SyntaxKind.StringLiteralToken
              /\ lexed[j].token.text[1] = q
              /\ \E p \in 2..(Len(lexed[j].token.text) - 1) :
                    lexed[j].token.text[p] \in Quotes \ {q}

\* A letter, a digit or the underscore.
LetterDigitOrUnderscore(ch) ==
    \/ (ch >= CharCodes.A /\ ch <= CharCodes.Z)
    \/ (ch >= CharCodes.a /\ ch <= CharCodes.z)
    \/ ch \in AccentedLower \cup AccentedUpper
    \/ (ch >= CharCodes.d0 /\ ch <= CharCodes.d9)
    \/ ch = CharCodes.underscore

(***************************************************************************)
(* C26  isIdentifierPart is true exactly of the letters, the digits and    *)
(* the underscore, and isIdentifierStartPart exactly of the letters: a     *)
(* token that next() returns from a letter on is the run of letters,       *)
(* digits and underscores that starts there and holds no other character.  *)
(***************************************************************************)
C26_IdentifierPartsAreLettersDigitsUnderscores ==
    \A i \in 1..Len(lexed) :
        (lexed[i].start < Len(source)
            /\ isIdentifierStartPart(charCodeAt(source, lexed[i].start))) =>
            /\ isLetter(charCodeAt(source, lexed[i].start))
            /\ \A p \in lexed[i].start..(lexed[i].end - 1) :
                  LetterDigitOrUnderscore(charCodeAt(source, p))
            /\ lexed[i].end < Len(source) =>
                  ~LetterDigitOrUnderscore(charCodeAt(source, lexed[i].end))

\* The tokens of a text that the parser does not skip.
IsSignificant(entry) == entry.token.kind \in SignificantKinds
SignificantTokens(text) == SelectSeq(Enumerate(text, 0), IsSignificant)

\* The text has `call`, an identifier and then directly `;`, `}` or the end
\* of the file.
CallWithoutArgument(text) ==
    LET tokens == SignificantTokens(text)
    IN \E i \in 1..(Len(tokens) - 2) :
          /\ tokens[i].token.kind = SyntaxKind.CallKeyword
          /\ tokens[i + 1].token.kind = SyntaxKind.IdentifierToken
          /\ tokens[i + 2].token.kind \in {SyntaxKind.SemicolonToken,
                                          SyntaxKind.CloseBraceToken,
                                          SyntaxKind.EndOfFileToken}

(***************************************************************************)
(* C27  Every InvocationExpression that the parser builds has an           *)
(* ArgumentList with at least one argument, and parse() of a text with     *)
(* `call`, an identifier and then directly `;`, `}` or the end of the file *)
(* raises a SyntaxError and returns no tree.                               *)
(***************************************************************************)
C27_InvocationHasArgument ==
    /\ \A id \in 1..Len(heap) :
          heap[id].kind = SyntaxKind.InvocationExpression =>
              /\ Arity(heap, id) = 3
              /\ heap[child(heap, id, 2)].kind = SyntaxKind.ArgumentList
              /\ Arity(heap, child(heap, id, 2)) >= 1
    /\ (parses >= 1 /\ CallWithoutArgument(source)) =>
          /\ stage = "threw"
          /\ thrown.type = "SyntaxError"
          /\ tree = 0

\* parse() has rejected `call f;` at the semicolon, where it looked for the
\* first argument.
C27_CallWithoutArgumentRejected ==
    /\ source = Sample_callNoArgument
    /\ parses = 1
    /\ stage = "threw"
    /\ thrown = SyntaxError(<<"An expression expected instead of the token '",
                              kindText(SyntaxKind.SemicolonToken), "'.">>)
    /\ NodesOfKind(heap, 1, SyntaxKind.InvocationExpression) = {}

\* The calls of next() recorded that did not return the end-of-file token.
BeforeEndOfFile(entries) == Len(entries) - EofReads(entries)

(***************************************************************************)
(* C28  The cursor stays within 0..source.length.  A next() that starts    *)
(* on a character ends further on, whether it returns a token or throws;   *)
(* one that starts past the last character returns the end-of-file token   *)
(* and leaves the cursor.  So since the last reset() no more than          *)
(* source.length calls were made before the end-of-file token.             *)
(***************************************************************************)
C28_CursorAdvancesWithinSource ==
    /\ 0 <= pos /\ pos <= Len(source)
    /\ \A i \in 1..Len(lexed) :
          /\ 0 <= lexed[i].start /\ lexed[i].end <= Len(source)
          /\ lexed[i].start <= lastPos(source) =>
                lexed[i].start < lexed[i].end
          /\ lexed[i].start > lastPos(source) =>
                /\ lexed[i].err = NoError
                /\ lexed[i].token.kind = SyntaxKind.EndOfFileToken
                /\ lexed[i].end = lexed[i].start
          /\ i > 1 => lexed[i].start = lexed[i - 1].end
    /\ BeforeEndOfFile(lexed) <= Len(source)

\* A next() that threw has moved the cursor forward, and the enumeration
\* went on to the end-of-file token.
C28_EndOfFileReachedAfterThrow ==
    /\ Len(lexed) >= 3
    /\ \E i \in 2..(Len(lexed) - 1) :
          /\ lexed[i].err # NoError
          /\ lexed[i].start < lexed[i].end
    /\ lexed[Len(lexed)].token.kind = SyntaxKind.EndOfFileToken

\* The braces among the first k tokens of an enumeration.
BracesUpTo(tokens, k, kind) ==
    Cardinality({i \in 1..k : tokens[i].token.kind = kind})

\* The index of the token that closes the first block of an enumeration:
\* the first closing brace up to which as many braces close as open; 0 when
\* there is none.
TopLevelClose(tokens) ==
    LET closes == {k \in 1..Len(tokens) :
                      /\ tokens[k].token.kind = SyntaxKind.CloseBraceToken
                      /\ BracesUpTo(tokens, k, SyntaxKind.OpenBraceToken) =
                             BracesUpTo(tokens, k, SyntaxKind.CloseBraceToken)}
    IN IF closes = {} THEN 0
       ELSE CHOOSE k \in closes : \A other \in closes : k <= other

\* The first entry after the index k that is not whitespace or a line
\* break: a token, the end-of-file token or a call of next() that threw.
FirstAfter(tokens, k) ==
    LET others == {j \in (k + 1)..Len(tokens) :
                      tokens[j].token.kind \notin {SyntaxKind.WhiteSpaceTrivia,
                                                   SyntaxKind.EndOfLineToken}}
    IN tokens[CHOOSE j \in others : \A other \in others : j <= other]

\* The text is an accepted program up to the closing brace of its top-level
\* block, and another token follows that brace.
TokenAfterProgram(text) ==
    LET tokens == Enumerate(text, 0)
        k == TopLevelClose(tokens)
    IN /\ k > 0
       /\ FirstAfter(tokens, k).err = NoError
       /\ FirstAfter(tokens, k).token.kind # SyntaxKind.EndOfFileToken
       /\ Accepted(SubSeq(text, 1, tokens[k].end))

\* Only whitespace and line breaks lie between the closing brace of the
\* top-level block and the end of the text.
ProgramEndsText(text) ==
    LET tokens == Enumerate(text, 0)
        k == TopLevelClose(tokens)
    IN /\ k > 0
       /\ FirstAfter(tokens, k).err = NoError
       /\ FirstAfter(tokens, k).token.kind = SyntaxKind.EndOfFileToken

(***************************************************************************)
(* C29  parse() returns a tree only if nothing but whitespace and line     *)
(* breaks lies between the closing brace of the program's top-level block  *)
(* and the end of the text; when another token follows that brace, parse() *)
(* raises the SyntaxError that EndOfFileToken was expected and returns no  *)
(* tree.                                                                   *)
(***************************************************************************)
C29_NothingAfterProgram ==
    parses = 1 =>
        /\ stage \in {"parsed", "emitted"} => ProgramEndsText(source)
        /\ TokenAfterProgram(source) =>
              /\ stage = "threw"
              /\ tree = 0
              /\ thrown.type = "SyntaxError"
              /\ SubSeq(thrown.message, 1, 2) =
                     <<kindText(SyntaxKind.EndOfFileToken),
                       " expected instead of the token '">>

\* parse() has rejected a second program after the first one.
C29_SecondProgramRejected ==
    /\ source = Sample_secondProgram
    /\ parses = 1
    /\ stage = "threw"
    /\ tree = 0
    /\ thrown = SyntaxError(<<kindText(SyntaxKind.EndOfFileToken),
                              " expected instead of the token '",
                              kindText(SyntaxKind.ProgramKeyword), "'.">>)

\* The cursor is where the parser's failing token was read: behind the call
\* of next() that threw, or behind the token that the parser holds and did
\* not accept.
CursorAtFailingToken ==
    LET tokens == Enumerate(source, 0)
    IN \E i \in 1..Len(tokens) :
          /\ tokens[i].end = pos
          /\ IF Lexical(thrown)
             THEN tokens[i].err = thrown
             ELSE /\ tokens[i].err = NoError
                  /\ tokens[i].token.kind = heap[token].kind
                  /\ tokens[i].token.text = heap[token].text

\* What a call of parse() leaves: the Program root and the cursor at 0, or
\* an exception, no tree and the cursor where the failing token was read.
ParseOutcome ==
    /\ (stage = "parsed" /\ parses >= 1) =>
          /\ thrown = NoError
          /\ tree # 0
          /\ heap[tree].kind = SyntaxKind.Program
          /\ pos = 0
    /\ (stage = "threw" /\ parses >= 1 /\ thrown.type # "EmitterError") =>
          /\ thrown.type = "SyntaxError"
          /\ parses = 1 => tree = 0
          /\ CursorAtFailingToken

\* A step of the parser that does not end in the rewind of a successful
\* parse() does not move the cursor backwards, and a parse() that throws
\* returns no tree.
NoBacktracking ==
    (stage \in {"parser", "stepping", "parsed"} /\ stage' # "parsed") =>
        /\ pos' >= pos
        /\ stage' = "threw" => tree' = tree

(***************************************************************************)
(* C30  parse() either returns the Program root with the lexer cursor      *)
(* rewound to 0, or throws and returns no tree, the cursor not rewound but *)
(* left where the failing token was read; before the final rewind the      *)
(* parser never moves the cursor backwards.                                *)
(***************************************************************************)
C30_ParseOutcomes == [] ParseOutcome /\ [][NoBacktracking]_vars

====
